---- MODULE Spec2Model ----
(***************************************************************************)
(* Entity-annotation pipeline of the Legal-Dashboard repository:           *)
(*   app/services/ner/gemini.py  (_TTLCache, _RateLimiter, GeminiNER)      *)
(*   app/judgments/routes.py     (_get_doc_lock, api_ner_html)             *)
(* Text is a sequence of one-character strings.  Python offsets are        *)
(* 0-based and half-open; Slice translates them to TLA+ sequences.         *)
(***************************************************************************)
EXTENDS Integers, Sequences, FiniteSets, TLC

VARIABLES
    \* GeminiNER._chunks: its arguments and locals, and the position in it
    ck_text, ck_max_chars, ck_parts, ck_cur, ck_pc,
    \* time.time(), in ticks
    now,
    \* _CACHE._store: the entries [k, val, ts] in dict insertion order
    ca_store,
    \* the last _TTLCache operation and what it returned; the last set of each key
    ca_op, ca_lastset,
    \* GeminiNER.extract_spans: its arguments and locals, the position in it,
    \* the calls made so far, the _call_gemini_json calls of this one, and
    \* the provider item of the last iteration of the normalisation loop
    ex_pc, ex_text, ex_max_chars, ex_chunks, ex_ci, ex_offset, ex_spans,
    ex_result, ex_nitems, ex_hit, ex_calls, ex_provider, ex_item,
    \* _CACHE._store as it was when the call of extract_spans in progress
    \* began, <<>> when none is in progress, and
    \* whether a chunk of the call took the except requests.HTTPError branch
    ex_before, ex_partial,
    \* GeminiNER.annotate_html: its arguments, the fragments it put in place of
    \* each eligible node, what it returned, the pass and the position in it
    an_pc, an_html, an_max_chars, an_frags, an_out, an_pass,
    \* _LIMITER: _last, the holder of _lock, and per thread in wait() the
    \* position, the local now, the end of its sleep and the calls it made
    rl_last, rl_lock, rl_pc, rl_now, rl_until, rl_calls,
    \* when each caller stamped _last, and when each call of wait() returned
    rl_passes, rl_returns,
    \* the engine's _mode; per document whether its cleaned HTML is empty and
    \* what the store holds in content_ner_html
    gd_mode, gd_empty, gd_store,
    \* _INFLIGHT_LOCKS, the holder of each lock object, the holder of
    \* _LOCKS_MUTEX, and the number of lock objects made so far
    gd_locks, gd_holder, gd_mutex, gd_nlocks,
    \* api_ner_html, per thread: the position, doc_id, force, debug, the
    \* local lock and the response
    gd_pc, gd_doc, gd_force, gd_debug, gd_lock, gd_resp,
    \* per document: whether two requests were in flight at once, the
    \* annotation runs started, those started by requests without force and
    \* debug, those of them that left nothing persisted, the locks created
    gd_conc, gd_runs, gd_plainruns, gd_lost, gd_created,
    \* GeminiNER._call_gemini_json: the position, attempt and backoff (in
    \* quarters of a second), the requests posted, the limiter waits, the
    \* sleeps taken, the last response, and what the call returned or raised
    cg_pc, cg_attempt, cg_backoff, cg_requests, cg_waits, cg_sleeps, cg_last,
    cg_out,
    \* extract_spans called by several threads for one text, per thread: the
    \* position, the chunk in hand and spans; per chunk the provider calls made
    xt_pc, xt_ci, xt_spans, xt_queries

chunkVars == <<ck_text, ck_max_chars, ck_parts, ck_cur, ck_pc>>
cacheVars == <<ca_store, ca_op, ca_lastset>>
extractVars == <<ex_pc, ex_text, ex_max_chars, ex_chunks, ex_ci, ex_offset,
                 ex_spans, ex_result, ex_nitems, ex_hit, ex_calls,
                 ex_provider, ex_item, ex_before, ex_partial>>

annotateVars == <<an_pc, an_html, an_max_chars, an_frags, an_out, an_pass>>

limiterVars == <<rl_last, rl_lock, rl_pc, rl_now, rl_until, rl_calls,
                 rl_passes, rl_returns>>

guardVars == <<gd_mode, gd_empty, gd_store, gd_locks, gd_holder, gd_mutex,
               gd_nlocks, gd_pc, gd_doc, gd_force, gd_debug, gd_lock, gd_resp,
               gd_conc, gd_runs, gd_plainruns, gd_lost, gd_created>>

callVars == <<cg_pc, cg_attempt, cg_backoff, cg_requests, cg_waits, cg_sleeps,
              cg_last, cg_out>>

threadVars == <<xt_pc, xt_ci, xt_spans, xt_queries>>

vars == <<chunkVars, now, cacheVars, extractVars, annotateVars, limiterVars,
          guardVars, callVars, threadVars>>

\* what the actions of one component leave alone
notChunk == <<now, cacheVars, extractVars, annotateVars, limiterVars,
             guardVars, callVars, threadVars>>
notCache == <<chunkVars, extractVars, annotateVars, limiterVars, guardVars,
             callVars, threadVars>>
notExtract == <<chunkVars, annotateVars, limiterVars, guardVars, callVars,
               threadVars>>
notAnnotate == <<chunkVars, limiterVars, guardVars, callVars, threadVars>>
notLimiter == <<chunkVars, cacheVars, extractVars, annotateVars, guardVars,
               callVars, threadVars>>
notGuard == <<chunkVars, now, cacheVars, extractVars, annotateVars,
             limiterVars, callVars, threadVars>>
notCall == <<chunkVars, now, cacheVars, extractVars, annotateVars,
            limiterVars, guardVars, threadVars>>
notThreads == <<chunkVars, extractVars, annotateVars, limiterVars, guardVars,
               callVars>>

----------------------------------------------------------------------------
(* Bounds of the model *)

\* longest text handed to _chunks
MaxTextLen == 5
\* largest max_chars handed to _chunks
MaxChars == 4

\* most provider items (valid or not) one run receives
MaxItems == 2
\* most calls of extract_spans in one run
MaxCalls == 2
\* latest clock value reached
MaxTime == 4
\* _CACHE._ttl and _CACHE._maxsize, scaled to the model's clock and key set
CacheTTL == 1
CacheMaxSize == 2
\* the threads that call into the process at once
NumThreads == 2
\* _RateLimiter.min_interval, in ticks
MinInterval == 2

\* the characters texts are made of: a letter, the full stop and the blank
Alphabet == {"a", ".", " "}
\* str.strip() removes these
Whitespace == {" ", "\n"}
\* the texts extract_spans is called with directly
ExtractTexts ==
    { <<"a", "a", "a", "a">>, <<"a", ".", " ", "a">>,
      <<"a", "a", ".", " ">>, <<" ", " ">>, <<>> }
\* the keys and values the cache is used with on its own
CacheKeys == { <<<<"a">>, 1>>, <<<<"a">>, 2>>, <<<<"a", "a">>, 1>> }
CacheVals == { <<>>, <<[s |-> 0, e |-> 1, L |-> "A"]>> }
\* the text of a text node of a document
NodeTexts == { <<"a", "a", "a">>, <<" ", "a">>, <<"a", ".">> }
\* the max_chars annotate_html is called with: several chunks, one chunk
AnnotateMaxChars == {4, 9}
\* the labels a provider item may carry, before normalisation
ProviderLabels == {"", " ", "a", "B"}

----------------------------------------------------------------------------
(* Python built-ins *)

Min(a, b) == IF a < b THEN a ELSE b
Max(a, b) == IF a > b THEN a ELSE b

SetMax(S) == CHOOSE m \in S : \A n \in S : n <= m

\* s[i:j] for 0 <= i
Slice(s, i, j) == SubSeq(s, i + 1, Min(j, Len(s)))

\* all sequences over S of length lo..hi
SeqsOf(S, lo, hi) == UNION {[1..n -> S] : n \in lo..hi}

RECURSIVE Concat(_)
\* "".join(parts)
Concat(parts) ==
    IF parts = <<>> THEN <<>> ELSE Head(parts) \o Concat(Tail(parts))

\* slice_.rfind(". "): the highest 0-based index of ". " in s, or -1
rfind(s) ==
    LET I == {i \in 1..(Len(s) - 1) : s[i] = "." /\ s[i + 1] = " "}
    IN  IF I = {} THEN -1 ELSE SetMax(I) - 1

----------------------------------------------------------------------------
(* GeminiNER._chunks *)

\* _chunks_body as if the cut consumed the ". " it was found at
_chunks_body_skip_separator(text, max_chars, cur) ==
    LET end    == Min(Len(text), cur + max_chars)
        slice_ == Slice(text, cur, end)
        found  == rfind(slice_)
        atSep  == ~(found = -1 \/ found < (Len(slice_) \div 2))
        cut    == IF atSep THEN found ELSE Len(slice_)
    IN  [part |-> Slice(slice_, 0, cut),
         cur  |-> cur + cut + (IF atSep THEN 2 ELSE 0)]

\* _chunks_body without the half-way test of line 147: any ". " found is the cut
_chunks_body_any_boundary(text, max_chars, cur) ==
    LET end    == Min(Len(text), cur + max_chars)
        slice_ == Slice(text, cur, end)
        found  == rfind(slice_)
        cut    == IF found = -1 THEN Len(slice_) ELSE found
    IN  [part |-> Slice(slice_, 0, cut), cur |-> cur + cut]

\* One iteration of the while loop: the chunk appended and the new cur.
_chunks_body(text, max_chars, cur) ==
    LET end    == Min(Len(text), cur + max_chars)
        slice_ == Slice(text, cur, end)
        found  == rfind(slice_)
        cut    == IF found = -1 \/ found < (Len(slice_) \div 2)
                  THEN Len(slice_) ELSE found
    IN  [part |-> Slice(slice_, 0, cut), cur |-> cur + cut]

RECURSIVE _chunks_loop(_, _, _, _)
_chunks_loop(text, max_chars, cur, parts) ==
    IF cur < Len(text)
    THEN LET b == _chunks_body(text, max_chars, cur)
         IN  _chunks_loop(text, max_chars, b.cur, Append(parts, b.part))
    ELSE parts

_chunks(text, max_chars) ==
    IF Len(text) <= max_chars THEN <<text>>
    ELSE _chunks_loop(text, max_chars, 0, <<>>)

\* offset of chunk i as extract_spans computes it: offset += len(chunk)
RECURSIVE RunningOffset(_, _)
RunningOffset(parts, i) ==
    IF i <= 1 THEN 0 ELSE RunningOffset(parts, i - 1) + Len(parts[i - 1])

----------------------------------------------------------------------------
(* _TTLCache *)

\* the cache key of extract_spans: model and labels are fixed here, and the
\* sha1 of (len(text), hash(text), max_chars) is one-to-one on the inputs used
cache_key(text, max_chars) == <<text, max_chars>>

\* position of key k in the store, 0 when absent
StoreIndex(store, k) ==
    LET I == {i \in 1..Len(store) : store[i].k = k}
    IN  IF I = {} THEN 0 ELSE CHOOSE i \in I : TRUE

RemoveAt(seq, i) == SubSeq(seq, 1, i - 1) \o SubSeq(seq, i + 1, Len(seq))

\* _expired as if an entry lived one tick longer
_expired_late(t, ts) == t - ts > CacheTTL + 1

_expired_early(t, ts) == t - ts >= CacheTTL

\* the expiry test of get and _prune: now - t > self._ttl
_expired(t, ts) == t - ts > CacheTTL

RECURSIVE DropDead(_, _)
\* dead = [k ... if now - t > self._ttl]; for k in dead: pop
DropDead(store, t) ==
    IF store = <<>> THEN <<>>
    ELSE IF _expired(t, Head(store).ts)
         THEN DropDead(Tail(store), t)
         ELSE <<Head(store)>> \o DropDead(Tail(store), t)

\* _prune without the size control of lines 46-49
_prune_ttl_only(store, t) == DropDead(store, t)

\* _TTLCache._prune at time t
_prune(store, t) ==
    LET live == DropDead(store, t)
    IN  IF Len(live) > CacheMaxSize
        THEN SubSeq(live, Len(live) - CacheMaxSize + 1, Len(live))
        ELSE live

\* _TTLCache.get as if it left an expired entry in the store
_TTLCache_get_keeps_expired(store, k, t) ==
    LET i == StoreIndex(store, k)
    IN  IF i = 0 \/ t - store[i].ts > CacheTTL
        THEN [hit |-> FALSE, val |-> <<>>, store |-> store]
        ELSE [hit |-> TRUE, val |-> store[i].val, store |-> store]

\* _TTLCache.get at time t: what it returns and the store it leaves
_TTLCache_get(store, k, t) ==
    LET i == StoreIndex(store, k)
    IN  IF i = 0 THEN [hit |-> FALSE, val |-> <<>>, store |-> store]
        ELSE IF _expired(t, store[i].ts)
             THEN [hit |-> FALSE, val |-> <<>>, store |-> RemoveAt(store, i)]
             ELSE [hit |-> TRUE, val |-> store[i].val, store |-> store]

\* _TTLCache.set at time t: self._store[k] = (val, time.time()); self._prune()
_TTLCache_set(store, k, val, t) ==
    LET i == StoreIndex(store, k)
        e == [k |-> k, val |-> val, ts |-> t]
        put == IF i = 0 THEN Append(store, e) ELSE [store EXCEPT ![i] = e]
    IN  _prune(put, t)

----------------------------------------------------------------------------
(* GeminiNER.extract_spans: normalisation, sort and merge *)

\* not text or not text.strip()
IsBlank(text) == \A i \in 1..Len(text) : text[i] \in Whitespace

\* str(it.get("label", "")).upper().strip()
label_norm(l) ==
    CASE l = "a"    -> "A"
      [] l = " "    -> ""
      [] l = "null" -> "NONE"
      [] OTHER      -> l

\* The "start" and "end" of a provider item are JSON numbers.  They are
\* written in halves (2 is the number 1, -1 is the number -0.5), so that a
\* number with a fraction can be an input of int().
\* int(x) for a number x: truncation toward zero
py_int(h) == IF h >= 0 THEN h \div 2 ELSE -((-h) \div 2)

\* an item whose int() conversion raises (a value that is no number, or an
\* item that is no object)
NoItem == [ok |-> FALSE, start |-> 0, end |-> 0, label |-> ""]

\* the items with whole offsets a provider may put in its array for a chunk,
\* and NoItem
RawItems(chunk, labels) ==
    {[ok |-> TRUE, start |-> 2 * s, end |-> 2 * e, label |-> l] :
        s \in (-1)..Len(chunk), e \in 0..(Len(chunk) + 1), l \in labels}
    \cup {NoItem}

\* items with an offset that has a fraction: start -0.5, end len(chunk) + 0.5,
\* start 0.5 with end 1.5, start 1 with end 1.5
FractionalItems(chunk) ==
    {[ok |-> TRUE, start |-> b[1], end |-> b[2], label |-> "a"] :
        b \in {<<-1, 2>>, <<0, 2 * Len(chunk) + 1>>, <<1, 3>>, <<2, 3>>}}

\* item_valid as if end were never compared with len(chunk)
item_valid_unbounded(it, chunk) ==
    /\ it.ok
    /\ label_norm(it.label) # ""
    /\ py_int(it.end) > py_int(it.start)
    /\ py_int(it.start) >= 0

\* lines 276-282: the conversions did not raise, and
\* if lab and e > s and s >= 0 and e <= len(chunk)
item_valid(it, chunk) ==
    /\ it.ok
    /\ label_norm(it.label) # ""
    /\ py_int(it.end) > py_int(it.start)
    /\ py_int(it.start) >= 0
    /\ py_int(it.end) <= Len(chunk)

\* spans.append((s + offset, e + offset, lab))
item_span(it, offset) ==
    [s |-> py_int(it.start) + offset, e |-> py_int(it.end) + offset,
     L |-> label_norm(it.label)]

\* sort_key_less as if the key were the start alone
sort_key_less_start_only(x, y) == x.s < y.s

\* key=lambda x: (x[0], x[1]), compared
sort_key_less(x, y) == x.s < y.s \/ (x.s = y.s /\ x.e < y.e)

RECURSIVE InsertSorted(_, _)
\* x placed behind every element whose key is not greater (the sort is stable)
InsertSorted(sorted, x) ==
    IF sorted = <<>> THEN <<x>>
    ELSE IF sort_key_less(x, Head(sorted))
         THEN <<x>> \o sorted
         ELSE <<Head(sorted)>> \o InsertSorted(Tail(sorted), x)

RECURSIVE sort_spans(_)
\* spans.sort(key=lambda x: (x[0], x[1]))
sort_spans(spans) ==
    IF spans = <<>> THEN <<>>
    ELSE InsertSorted(sort_spans(SubSeq(spans, 1, Len(spans) - 1)),
                      spans[Len(spans)])

\* merge_keeps as if every span were kept
merge_keeps_always(s, last_end) == s >= -1

\* if s >= last_end
merge_keeps(s, last_end) == s >= last_end

RECURSIVE merge_loop_widen(_, _, _)
\* merge_loop as if an overlapping span widened the span kept before it
merge_loop_widen(spans, merged, last_end) ==
    IF spans = <<>> THEN merged
    ELSE LET x == Head(spans)
         IN  IF x.s >= last_end
             THEN merge_loop_widen(Tail(spans), Append(merged, x), x.e)
             ELSE merge_loop_widen(
                     Tail(spans),
                     [merged EXCEPT ![Len(merged)].e = Max(@, x.e)],
                     Max(last_end, x.e))

RECURSIVE merge_loop(_, _, _)
merge_loop(spans, merged, last_end) ==
    IF spans = <<>> THEN merged
    ELSE LET x == Head(spans)
         IN  IF merge_keeps(x.s, last_end)
             THEN merge_loop(Tail(spans), Append(merged, x), x.e)
             ELSE merge_loop(Tail(spans), merged, last_end)

\* merge_spans as if extract_spans sorted its spans and dropped none
merge_spans_sort_only(spans) == sort_spans(spans)

\* the sort + non-overlap merge at the end of extract_spans
merge_spans(spans) == merge_loop(sort_spans(spans), <<>>, -1)

----------------------------------------------------------------------------
(* HTML.  A document is its serialisation: a sequence of tokens, each a      *)
(* character or a tag.  BeautifulSoup(html) finds the text nodes in it,      *)
(* str(soup) writes the tokens back.                                         *)

TagOpen  == {"<p>", "<script>", "<span.ner-A>", "<span.ner-B>"}
TagClose == {"</p>", "</script>", "</span>"}

\* _SKIP_TAGS
_SKIP_TAGS == {"script", "style", "noscript", "code", "pre", "svg", "canvas",
               "iframe"}

\* the element an opening tag creates: its name and its class list
TagOf(tok) ==
    CASE tok = "<p>"          -> [name |-> "p", class |-> {}]
      [] tok = "<script>"     -> [name |-> "script", class |-> {}]
      [] tok = "<span.ner-A>" -> [name |-> "span", class |-> {"ner", "ner-A"}]
      [] tok = "<span.ner-B>" -> [name |-> "span", class |-> {"ner", "ner-B"}]

\* the BeautifulSoup object, parent of the top-level nodes
DocumentRoot == [name |-> "[document]", class |-> {}]

IsChar(tok) == tok \notin (TagOpen \cup TagClose)

\* span_tag["class"] = ["ner", f"ner-{L2}"], serialised
NerOpen(L) == IF L = "A" THEN "<span.ner-A>" ELSE "<span.ner-B>"

RECURSIVE RunEnd(_, _)
\* the last token of the run of characters that starts at i
RunEnd(html, i) ==
    IF i < Len(html) /\ IsChar(html[i + 1]) THEN RunEnd(html, i + 1) ELSE i

RECURSIVE FindStrings(_, _, _, _)
\* soup.find_all(string=True): the text nodes in document order, each with
\* its place in the token sequence, its parent element and its text
FindStrings(html, i, stack, acc) ==
    IF i > Len(html) THEN acc
    ELSE IF html[i] \in TagOpen
         THEN FindStrings(html, i + 1, Append(stack, TagOf(html[i])), acc)
    ELSE IF html[i] \in TagClose
         THEN FindStrings(html, i + 1, SubSeq(stack, 1, Len(stack) - 1), acc)
    ELSE LET j == RunEnd(html, i)
         IN  FindStrings(html, j + 1, stack,
                 Append(acc, [lo |-> i, hi |-> j, parent |-> stack[Len(stack)],
                              s |-> SubSeq(html, i, j)]))

find_all_strings(html) == FindStrings(html, 1, <<DocumentRoot>>, <<>>)

RECURSIVE strip(_)
\* str.strip()
strip(s) ==
    IF s = <<>> THEN s
    ELSE IF s[1] \in Whitespace THEN strip(Tail(s))
    ELSE IF s[Len(s)] \in Whitespace THEN strip(SubSeq(s, 1, Len(s) - 1))
    ELSE s

\* GeminiNER._should_skip
_should_skip(tag) == tag.name \in _SKIP_TAGS

\* lines 321-329 without the tests of the parent, lines 322 and 325
node_eligible_any_parent(tn) == Len(strip(tn.s)) >= 2

\* lines 321-329 without the test of line 325: a wrapped node is taken again
node_eligible_rewrapped(tn) ==
    /\ ~_should_skip(tn.parent)
    /\ Len(strip(tn.s)) >= 2

\* lines 321-329: the node is taken into the corpus
node_eligible(tn) ==
    /\ ~_should_skip(tn.parent)
    /\ "ner" \notin tn.parent.class
    /\ Len(strip(tn.s)) >= 2

\* delim = "\n¶\n"; "#" stands for the pilcrow
delim == <<"\n", "#", "\n">>
dlen == Len(delim)

RECURSIVE CollectNodes(_, _, _)
\* lines 319-335: text_nodes, texts and offsets, as one list of records
CollectNodes(all, cursor, acc) ==
    IF all = <<>> THEN acc
    ELSE LET tn == Head(all)
         IN  IF node_eligible(tn)
             THEN CollectNodes(Tail(all), cursor + Len(tn.s) + dlen,
                      Append(acc, [lo |-> tn.lo, hi |-> tn.hi, s |-> tn.s,
                                   start |-> cursor,
                                   end |-> cursor + Len(tn.s)]))
             ELSE CollectNodes(Tail(all), cursor, acc)

text_nodes(html) == CollectNodes(find_all_strings(html), 0, <<>>)

RECURSIVE JoinNodes(_)
\* big_text = delim.join(texts)
JoinNodes(nodes) ==
    IF nodes = <<>> THEN <<>>
    ELSE IF Len(nodes) = 1 THEN nodes[1].s
    ELSE nodes[1].s \o delim \o JoinNodes(Tail(nodes))

RECURSIVE node_spans(_, _)
\* lines 348-355: the global spans clipped to the node's window
node_spans(spans, node) ==
    IF spans = <<>> THEN <<>>
    ELSE LET x  == Head(spans)
             ls == Max(0, x.s - node.start)
             le == Min(Len(node.s), x.e - node.start)
         IN  IF x.e <= node.start \/ x.s >= node.end
             THEN node_spans(Tail(spans), node)
             ELSE IF ls < le
                  THEN <<[s |-> ls, e |-> le, L |-> x.L]>>
                           \o node_spans(Tail(spans), node)
                  ELSE node_spans(Tail(spans), node)

\* lines 360-366: the per-node sort and merge
node_merge(nspans) == merge_loop(sort_spans(nspans), <<>>, -1)

\* frag_tail as if the text after the last entity were forgotten
frag_tail_dropped(ntext, cur) == <<>>

\* if cur < len(ntext): frags.append(NavigableString(ntext[cur:]))
frag_tail(ntext, cur) ==
    IF cur < Len(ntext)
    THEN <<[kind |-> "text", L |-> "", text |-> Slice(ntext, cur, Len(ntext))]>>
    ELSE <<>>

RECURSIVE frag_loop(_, _, _, _)
\* lines 368-380: the literal and wrapped fragments of one node
frag_loop(ntext, merged, cur, acc) ==
    IF merged = <<>> THEN acc \o frag_tail(ntext, cur)
    ELSE LET x   == Head(merged)
             lit == IF x.s > cur
                    THEN <<[kind |-> "text", L |-> "",
                            text |-> Slice(ntext, cur, x.s)]>>
                    ELSE <<>>
             tag == [kind |-> "span", L |-> x.L, text |-> Slice(ntext, x.s, x.e)]
         IN  frag_loop(ntext, Tail(merged), x.e, acc \o lit \o <<tag>>)

\* the fragments that replace a node; none when no span touches it
node_frags(spans, node) ==
    LET ns == node_spans(spans, node)
    IN  IF ns = <<>> THEN <<>>
        ELSE frag_loop(node.s, node_merge(ns), 0, <<>>)

RECURSIVE FragTokens(_)
\* str() of the fragments
FragTokens(frags) ==
    IF frags = <<>> THEN <<>>
    ELSE LET f == Head(frags)
         IN  (IF f.kind = "span"
              THEN <<NerOpen(f.L)>> \o f.text \o <<"</span>">>
              ELSE f.text) \o FragTokens(Tail(frags))

RECURSIVE Rebuild(_, _, _, _)
\* tn.replace_with(*frags) for every node, then str(soup)
Rebuild(html, nodes, frags, pos) ==
    IF nodes = <<>> THEN SubSeq(html, pos, Len(html))
    ELSE LET n == Head(nodes)
             f == Head(frags)
         IN  SubSeq(html, pos, n.lo - 1)
                 \o (IF f = <<>> THEN n.s ELSE FragTokens(f))
                 \o Rebuild(html, Tail(nodes), Tail(frags), n.hi + 1)

\* lines 343-384 for the spans extract_spans returned
project_frags(html, spans) ==
    LET nodes == text_nodes(html)
    IN  [i \in 1..Len(nodes) |-> node_frags(spans, nodes[i])]

project_html(html, frags) == Rebuild(html, text_nodes(html), frags, 1)

\* the elements of the documents annotate_html is given: a paragraph, a
\* script or an entity wrapper left by an earlier annotation
Blocks ==
    {<<"<p>">> \o t \o <<"</p>">> : t \in NodeTexts}
    \cup {<<"<script>">> \o t \o <<"</script>">> : t \in NodeTexts}
    \cup {<<"<span.ner-B>">> \o t \o <<"</span>">> : t \in NodeTexts}

\* the documents: empty, one element, two elements
Docs == {<<>>} \cup Blocks \cup {a \o b : a \in Blocks, b \in Blocks}

----------------------------------------------------------------------------
(* The state of each component before it is used *)

CacheEmpty ==
    /\ ca_store = <<>>
    /\ ca_op = [op |-> "none", k |-> <<>>, hit |-> FALSE, val |-> <<>>, t |-> 0]
    /\ ca_lastset = {}

CacheIdle == now = 0 /\ CacheEmpty

\* the threads of the process
Threads == 1..NumThreads

LimiterIdle ==
    /\ rl_last = 0
    /\ rl_lock = 0
    /\ rl_pc = [t \in Threads |-> "idle"]
    /\ rl_now = [t \in Threads |-> 0]
    /\ rl_until = [t \in Threads |-> 0]
    /\ rl_calls = [t \in Threads |-> 0]
    /\ rl_passes = <<>>
    /\ rl_returns = <<>>

\* the documents of the store
DocIds == {"A", "B"}
\* the lock objects threading.Lock() can return
LockIds == 1..NumThreads

\* no request yet: nothing persisted, no lock made
GuardQuiet ==
    /\ gd_store = [d \in DocIds |-> "none"]
    /\ gd_locks = [d \in DocIds |-> 0]
    /\ gd_holder = [l \in LockIds |-> 0]
    /\ gd_mutex = 0
    /\ gd_nlocks = 0
    /\ gd_pc = [t \in Threads |-> "idle"]
    /\ gd_doc = [t \in Threads |-> "A"]
    /\ gd_force = [t \in Threads |-> FALSE]
    /\ gd_debug = [t \in Threads |-> FALSE]
    /\ gd_lock = [t \in Threads |-> 0]
    /\ gd_resp = [t \in Threads |-> "none"]
    /\ gd_conc = [d \in DocIds |-> FALSE]
    /\ gd_runs = [d \in DocIds |-> 0]
    /\ gd_plainruns = [d \in DocIds |-> 0]
    /\ gd_lost = [d \in DocIds |-> 0]
    /\ gd_created = [d \in DocIds |-> 0]

GuardIdle ==
    /\ GuardQuiet
    /\ gd_mode = "spacy"
    /\ gd_empty = [d \in DocIds |-> FALSE]

\* no response yet
NoResponse == [status |-> 0, retry_after |-> "absent", body |-> "none"]

CallIdle ==
    /\ cg_pc = "idle"
    /\ cg_attempt = 0
    /\ cg_backoff = 0
    /\ cg_requests = 0
    /\ cg_waits = 0
    /\ cg_sleeps = <<>>
    /\ cg_last = NoResponse
    /\ cg_out = [kind |-> "none", val |-> "", hint |-> 0]

\* the text, max_chars, chunks and cache key of the calls the threads make
SharedText == <<"a", "a", "a", "a">>
SharedMaxChars == MaxChars - 2
SharedChunks == _chunks(SharedText, SharedMaxChars)
SharedKey == cache_key(SharedText, SharedMaxChars)

ThreadsIdle ==
    /\ xt_pc = [t \in Threads |-> "idle"]
    /\ xt_ci = [t \in Threads |-> 0]
    /\ xt_spans = [t \in Threads |-> <<>>]
    /\ xt_queries = [c \in 1..Len(SharedChunks) |-> 0]

ExtractIdle ==
    /\ ex_pc = "idle" /\ ex_text = <<>> /\ ex_max_chars = 1 /\ ex_chunks = <<>>
    /\ ex_ci = 0 /\ ex_offset = 0 /\ ex_spans = <<>> /\ ex_result = <<>>
    /\ ex_nitems = 0 /\ ex_hit = FALSE /\ ex_calls = 0
    /\ ex_provider = 0
    /\ ex_item = NoItem
    /\ ex_before = <<>> /\ ex_partial = FALSE

AnnotateIdle ==
    /\ an_pc = "idle" /\ an_html = <<>> /\ an_max_chars = 1 /\ an_frags = <<>>
    /\ an_out = <<>> /\ an_pass = 0

\* the variables of the other components while _chunks alone runs
ChunkIdle ==
    /\ ck_text = <<>> /\ ck_max_chars = 1 /\ ck_parts = <<>> /\ ck_cur = 0
    /\ ck_pc = "off"

ChunkInit ==
    /\ CacheIdle /\ ExtractIdle /\ AnnotateIdle /\ LimiterIdle /\ GuardIdle
    /\ CallIdle /\ ThreadsIdle
    /\ ck_text \in SeqsOf(Alphabet, 0, MaxTextLen)
    /\ ck_max_chars \in 1..MaxChars
    /\ ck_parts = <<>>
    /\ ck_cur = 0
    /\ ck_pc = "entry"

\* if len(text) <= max_chars: return [text]
ChunksShort ==
    /\ ck_pc = "entry"
    /\ Len(ck_text) <= ck_max_chars
    /\ ck_parts' = <<ck_text>>
    /\ ck_pc' = "done"
    /\ UNCHANGED <<ck_text, ck_max_chars, ck_cur>>
    /\ UNCHANGED notChunk

\* parts, cur = [], 0
ChunksEnterLoop ==
    /\ ck_pc = "entry"
    /\ Len(ck_text) > ck_max_chars
    /\ ck_parts' = <<>>
    /\ ck_cur' = 0
    /\ ck_pc' = "loop"
    /\ UNCHANGED <<ck_text, ck_max_chars>>
    /\ UNCHANGED notChunk

\* one iteration of: while cur < len(text)
ChunksIterate ==
    /\ ck_pc = "loop"
    /\ ck_cur < Len(ck_text)
    /\ LET b == _chunks_body(ck_text, ck_max_chars, ck_cur)
       IN  /\ ck_parts' = Append(ck_parts, b.part)
           /\ ck_cur' = b.cur
    /\ UNCHANGED <<ck_text, ck_max_chars, ck_pc>>
    /\ UNCHANGED notChunk

\* return parts
ChunksReturn ==
    /\ ck_pc = "loop"
    /\ ck_cur >= Len(ck_text)
    /\ ck_pc' = "done"
    /\ UNCHANGED <<ck_text, ck_max_chars, ck_parts, ck_cur>>
    /\ UNCHANGED notChunk

ChunkNext ==
    \/ ChunksShort
    \/ ChunksEnterLoop
    \/ ChunksIterate
    \/ ChunksReturn

SpecChunks == ChunkInit /\ [][ChunkNext]_vars

----------------------------------------------------------------------------
(* _TTLCache operations, with the record of what they did *)

CacheDoGet(k) ==
    LET r == _TTLCache_get(ca_store, k, now)
    IN  /\ ca_store' = r.store
        /\ ca_op' = [op |-> "get", k |-> k, hit |-> r.hit, val |-> r.val,
                      t |-> now]
        /\ UNCHANGED ca_lastset

CacheDoSet(k, val) ==
    /\ ca_store' = _TTLCache_set(ca_store, k, val, now)
    /\ ca_op' = [op |-> "set", k |-> k, hit |-> FALSE, val |-> val, t |-> now]
    /\ ca_lastset' = {x \in ca_lastset : x.k # k}
                        \cup {[k |-> k, val |-> val, t |-> now]}

\* a thread calls _CACHE.get(k); the lock makes the call atomic
CacheGet ==
    /\ \E k \in CacheKeys : CacheDoGet(k)
    /\ UNCHANGED <<now, notCache>>

\* a thread calls _CACHE.set(k, val)
CacheSet ==
    /\ \E k \in CacheKeys, val \in CacheVals : CacheDoSet(k, val)
    /\ UNCHANGED <<now, notCache>>

\* time passes
Tick ==
    /\ now < MaxTime
    /\ now' = now + 1
    /\ UNCHANGED <<cacheVars, notCache>>

CacheInit ==
    /\ ChunkIdle /\ CacheIdle /\ ExtractIdle /\ AnnotateIdle /\ LimiterIdle
    /\ GuardIdle /\ CallIdle /\ ThreadsIdle

CacheNext == CacheGet \/ CacheSet \/ Tick

SpecCache == CacheInit /\ [][CacheNext]_vars

----------------------------------------------------------------------------
(* GeminiNER.extract_spans *)

\* lines 251-263: the blank test, the cache lookup, the chunking
ExtractEnter(text, max_chars) ==
    /\ ex_text' = text
    /\ ex_max_chars' = max_chars
    /\ ex_calls' = ex_calls + 1
    /\ ex_partial' = FALSE
    /\ ex_provider' = 0
    /\ ex_item' = NoItem
    /\ ex_spans' = <<>>
    /\ ex_offset' = 0
    /\ UNCHANGED ex_nitems
    /\ IF IsBlank(text)
       THEN /\ ex_result' = <<>>
            /\ ex_hit' = FALSE
            /\ ex_pc' = "done"
            /\ ex_chunks' = <<>>
            /\ ex_ci' = 0
            /\ UNCHANGED cacheVars
       ELSE LET r == _TTLCache_get(ca_store, cache_key(text, max_chars), now)
            IN  /\ CacheDoGet(cache_key(text, max_chars))
                /\ IF r.hit
                   THEN /\ ex_result' = r.val
                        /\ ex_hit' = TRUE
                        /\ ex_pc' = "done"
                        /\ ex_chunks' = <<>>
                        /\ ex_ci' = 0
                   ELSE /\ ex_result' = <<>>
                        /\ ex_hit' = FALSE
                        /\ ex_pc' = "call"
                        /\ ex_chunks' = _chunks(text, max_chars)
                        /\ ex_ci' = 1
    /\ ex_before' = IF ex_pc' = "call" THEN ca_store ELSE <<>>

\* a caller invokes extract_spans
ExtractCall ==
    /\ ex_pc = "idle"
    /\ \E text \in ExtractTexts, max_chars \in 1..MaxChars :
          ExtractEnter(text, max_chars)
    /\ UNCHANGED <<now, notExtract>>

\* the caller invokes it again with the same arguments
ExtractRepeat ==
    /\ ex_pc \in {"done", "raised", "crashed"}
    /\ ex_calls < MaxCalls
    /\ ExtractEnter(ex_text, ex_max_chars)
    /\ UNCHANGED <<now, notExtract>>

\* lines 287-297: sort, merge, _CACHE.set, return merged
ExtractReturn ==
    /\ ex_result' = merge_spans(ex_spans)
    /\ CacheDoSet(cache_key(ex_text, ex_max_chars), merge_spans(ex_spans))
    /\ ex_pc' = "done"
    /\ ex_before' = <<>>

\* offset += len(chunk); the for loop takes the next chunk or, after the
\* last one, extract_spans runs to its return
ChunkAdvance ==
    /\ ex_offset' = ex_offset + Len(ex_chunks[ex_ci])
    /\ ex_ci' = ex_ci + 1
    /\ IF ex_ci + 1 > Len(ex_chunks)
       THEN ExtractReturn
       ELSE /\ ex_pc' = "call"
            /\ UNCHANGED <<ex_result, ex_before, cacheVars>>

\* the bodies of a 200 response: not JSON, JSON without candidate parts,
\* a part whose text is not JSON, and a part whose text is a JSON array,
\* object, string, number, true or null
Bodies ==
    {"not_json", "no_parts", "bad_text", "array", "object", "string", "number",
     "true", "null"}

\* lines 198-208: what the call returns for a 200 response, as the kind of
\* Python value
parse_body(b) ==
    CASE b \in {"not_json", "no_parts", "bad_text"} -> "empty_list"
      [] b = "array"  -> "list"
      [] b = "object" -> "dict"
      [] b = "string" -> "str"
      [] b = "number" -> "int"
      [] b = "true"   -> "bool"
      [] OTHER        -> "None"

\* for it in arr or []: a number or True is not iterable
iter_raises(v) == v \in {"int", "bool"}

\* _call_gemini_json returns no array: an empty list or None, or a dict or
\* str whose elements have no get() and are skipped one by one
ProviderReturnsMalformed ==
    /\ ex_pc = "call"
    /\ \E b \in Bodies \ {"array"} : ~iter_raises(parse_body(b))
    /\ ChunkAdvance
    /\ UNCHANGED <<ex_text, ex_max_chars, ex_chunks, ex_spans, ex_nitems,
                   ex_hit, ex_calls, ex_partial>>
    /\ ex_provider' = ex_provider + 1
    /\ UNCHANGED ex_item
    /\ UNCHANGED <<now, notExtract>>

\* _call_gemini_json returns a number or True: the for statement raises
\* TypeError, which extract_spans does not catch
ProviderReturnsScalar ==
    /\ ex_pc = "call"
    /\ \E b \in Bodies \ {"array"} : iter_raises(parse_body(b))
    /\ ex_pc' = "crashed"
    /\ UNCHANGED <<ex_text, ex_max_chars, ex_chunks, ex_ci, ex_offset, ex_spans,
                   ex_result, ex_nitems, ex_hit, ex_calls, ex_partial>>
    /\ ex_provider' = ex_provider + 1
    /\ UNCHANGED ex_item
    /\ UNCHANGED <<now, cacheVars, notExtract>>
    /\ ex_before' = <<>>

\* _call_gemini_json returns the provider's array
ProviderReturns ==
    /\ ex_pc = "call"
    /\ ex_pc' = "items"
    /\ UNCHANGED <<ex_text, ex_max_chars, ex_chunks, ex_ci, ex_offset, ex_spans,
                   ex_result, ex_nitems, ex_hit, ex_calls, ex_before, ex_partial>>
    /\ ex_provider' = ex_provider + 1
    /\ UNCHANGED ex_item
    /\ UNCHANGED <<now, cacheVars, notExtract>>

\* _call_gemini_json raises requests.HTTPError: arr = []
ProviderHTTPError ==
    /\ ex_pc = "call"
    /\ ChunkAdvance
    /\ UNCHANGED <<ex_text, ex_max_chars, ex_chunks, ex_spans, ex_nitems,
                   ex_hit, ex_calls>>
    /\ ex_partial' = TRUE
    /\ ex_provider' = ex_provider + 1
    /\ UNCHANGED ex_item
    /\ UNCHANGED <<now, notExtract>>

\* _call_gemini_json raises RateLimitError, which extract_spans re-raises
ProviderRateLimited ==
    /\ ex_pc = "call"
    /\ ex_pc' = "raised"
    /\ UNCHANGED <<ex_text, ex_max_chars, ex_chunks, ex_ci, ex_offset, ex_spans,
                   ex_result, ex_nitems, ex_hit, ex_calls, ex_partial>>
    /\ ex_provider' = ex_provider + 1
    /\ UNCHANGED ex_item
    /\ UNCHANGED <<now, cacheVars, notExtract>>
    /\ ex_before' = <<>>

\* one iteration of: for it in arr or [].  ex_item keeps the item of the
\* iteration where the run is to show it.
NormalizeItemOf(items, shown) ==
    /\ ex_pc = "items"
    /\ ex_nitems < MaxItems
    /\ \E it \in items :
          /\ ex_spans' = IF item_valid(it, ex_chunks[ex_ci])
                         THEN Append(ex_spans, item_span(it, ex_offset))
                         ELSE ex_spans
          /\ ex_item' = IF shown THEN it ELSE ex_item
    /\ ex_nitems' = ex_nitems + 1
    /\ UNCHANGED <<ex_pc, ex_text, ex_max_chars, ex_chunks, ex_ci, ex_offset,
                   ex_result, ex_hit, ex_calls, ex_provider, ex_before,
                   ex_partial>>
    /\ UNCHANGED <<now, cacheVars, notExtract>>

NormalizeItem(items) == NormalizeItemOf(items, FALSE)

ExtractNormalize ==
    NormalizeItem(RawItems(ex_chunks[ex_ci], ProviderLabels))

\* the array is exhausted
ChunkDone ==
    /\ ex_pc = "items"
    /\ ChunkAdvance
    /\ UNCHANGED <<ex_text, ex_max_chars, ex_chunks, ex_spans, ex_nitems,
                   ex_hit, ex_calls, ex_provider, ex_item,
                   ex_partial>>
    /\ UNCHANGED <<now, notExtract>>

ExtractInit ==
    /\ ChunkIdle /\ CacheIdle /\ ExtractIdle /\ AnnotateIdle /\ LimiterIdle
    /\ GuardIdle /\ CallIdle /\ ThreadsIdle

ExtractNext ==
    \/ ExtractCall
    \/ ExtractRepeat
    \/ ProviderReturns
    \/ ProviderReturnsMalformed
    \/ ProviderReturnsScalar
    \/ ProviderHTTPError
    \/ ProviderRateLimited
    \/ ExtractNormalize
    \/ ChunkDone

SpecExtract == ExtractInit /\ [][ExtractNext]_vars

----------------------------------------------------------------------------
(* C3: chunk exhaustiveness.  When _chunks returns, its chunks concatenated *)
(* in order are the text, and each chunk is the slice of the text that      *)
(* starts at the running offset extract_spans keeps for it.                 *)
C3_ChunkExhaustive ==
    ck_pc = "done" =>
        /\ Concat(ck_parts) = ck_text
        /\ \A i \in 1..Len(ck_parts) :
              LET off == RunningOffset(ck_parts, i)
              IN  ck_parts[i] = Slice(ck_text, off, off + Len(ck_parts[i]))

\* a text cut at a sentence boundary into several chunks has been returned
C3_Witness ==
    /\ ck_pc = "done"
    /\ Len(ck_parts) >= 2
    /\ \E i \in 2..Len(ck_parts) :
          Len(ck_parts[i]) >= 2 /\ ck_parts[i][1] = "." /\ ck_parts[i][2] = " "
    /\ \E i \in 1..Len(ck_parts) : Len(ck_parts[i]) < ck_max_chars /\ i < Len(ck_parts)

----------------------------------------------------------------------------
(* GeminiNER.annotate_html *)

\* lines 306-341: up to the call of extract_spans
AnnotateEnter(html, max_chars) ==
    /\ an_html' = html
    /\ an_max_chars' = max_chars
    /\ an_pass' = an_pass + 1
    /\ IF html = <<>> \/ text_nodes(html) = <<>>
       THEN /\ an_out' = html
            /\ an_frags' = <<>>
            /\ an_pc' = "done"
            /\ UNCHANGED <<cacheVars, extractVars>>
       ELSE /\ an_out' = <<>>
            /\ an_frags' = <<>>
            /\ an_pc' = "extract"
            /\ ExtractEnter(JoinNodes(text_nodes(html)), max_chars)
    /\ UNCHANGED <<now, notAnnotate>>

\* a caller invokes annotate_html on a document
AnnotateCall ==
    /\ an_pc = "idle"
    /\ \E html \in Docs, max_chars \in AnnotateMaxChars :
          AnnotateEnter(html, max_chars)

\* the caller invokes it on what the first call returned
AnnotateAgain ==
    /\ an_pc = "done"
    /\ an_pass = 1
    /\ AnnotateEnter(an_out, an_max_chars)

\* the locals of extract_spans are gone once its caller has the result
ExtractLeave ==
    /\ ex_pc' = "idle" /\ ex_chunks' = <<>> /\ ex_ci' = 0 /\ ex_offset' = 0
    /\ ex_spans' = <<>> /\ ex_result' = <<>> /\ ex_hit' = FALSE
    /\ ex_provider' = 0
    /\ ex_item' = NoItem
    /\ ex_before' = <<>> /\ ex_partial' = FALSE
    /\ UNCHANGED <<ex_text, ex_max_chars, ex_nitems, ex_calls>>

\* lines 343-384: extract_spans has returned; project and serialise
AnnotateProject ==
    /\ an_pc = "extract"
    /\ ex_pc = "done"
    /\ an_frags' = project_frags(an_html, ex_result)
    /\ an_out' = project_html(an_html, project_frags(an_html, ex_result))
    /\ an_pc' = "done"
    /\ ExtractLeave
    /\ UNCHANGED <<an_html, an_max_chars, an_pass>>
    /\ UNCHANGED <<now, cacheVars, notAnnotate>>

\* extract_spans raised RateLimitError or TypeError: annotate_html does not
\* catch it
AnnotateRaise ==
    /\ an_pc = "extract"
    /\ ex_pc \in {"raised", "crashed"}
    /\ an_pc' = IF ex_pc = "raised" THEN "failed" ELSE "crashed"
    /\ ExtractLeave
    /\ UNCHANGED <<an_html, an_max_chars, an_frags, an_out, an_pass>>
    /\ UNCHANGED <<now, cacheVars, notAnnotate>>

\* the provider's items while annotate_html runs
AnnotateNormalize ==
    NormalizeItem(RawItems(ex_chunks[ex_ci], {"a"}))

AnnotateInit ==
    /\ ChunkIdle /\ CacheIdle /\ ExtractIdle /\ AnnotateIdle /\ LimiterIdle
    /\ GuardIdle /\ CallIdle /\ ThreadsIdle

AnnotateNext ==
    \/ AnnotateCall
    \/ AnnotateAgain
    \/ AnnotateProject
    \/ AnnotateRaise
    \/ ProviderReturns
    \/ ProviderReturnsMalformed
    \/ ProviderReturnsScalar
    \/ ProviderHTTPError
    \/ ProviderRateLimited
    \/ AnnotateNormalize
    \/ ChunkDone

SpecAnnotate == AnnotateInit /\ [][AnnotateNext]_vars

----------------------------------------------------------------------------
(* _RateLimiter.wait, called by the threads of the process on _LIMITER *)

\* the clock runs long enough for three calls to pass the gate
LimiterHorizon == MinInterval * 3

wait_sleep_none(delta) == 0

\* time.sleep(self.min_interval - delta)
wait_sleep(delta) == MinInterval - delta

\* a thread calls _LIMITER.wait()
WaitCall(t) ==
    /\ rl_pc[t] = "idle"
    /\ rl_calls[t] < MaxCalls
    /\ rl_calls' = [rl_calls EXCEPT ![t] = @ + 1]
    /\ rl_pc' = [rl_pc EXCEPT ![t] = "acquire"]
    /\ UNCHANGED <<rl_last, rl_lock, rl_now, rl_until, rl_passes, rl_returns>>
    /\ UNCHANGED <<now, notLimiter>>

\* with self._lock: blocks until the lock is free
WaitAcquire(t) ==
    /\ rl_pc[t] = "acquire"
    /\ rl_lock = 0
    /\ rl_lock' = t
    /\ rl_pc' = [rl_pc EXCEPT ![t] = "locked"]
    /\ UNCHANGED <<rl_last, rl_now, rl_until, rl_calls, rl_passes, rl_returns>>
    /\ UNCHANGED <<now, notLimiter>>

\* now = time.time(); delta = now - self._last; sleep if delta < min_interval
WaitRead(t) ==
    /\ rl_pc[t] = "locked"
    /\ rl_now' = [rl_now EXCEPT ![t] = now]
    /\ IF now - rl_last < MinInterval
       THEN /\ rl_until' = [rl_until EXCEPT ![t] = now + wait_sleep(now - rl_last)]
            /\ rl_pc' = [rl_pc EXCEPT ![t] = "sleep"]
       ELSE /\ rl_pc' = [rl_pc EXCEPT ![t] = "stamp"]
            /\ UNCHANGED rl_until
    /\ UNCHANGED <<rl_last, rl_lock, rl_calls, rl_passes, rl_returns>>
    /\ UNCHANGED <<now, notLimiter>>

\* time.sleep returns, no earlier than asked
WaitWake(t) ==
    /\ rl_pc[t] = "sleep"
    /\ now >= rl_until[t]
    /\ rl_pc' = [rl_pc EXCEPT ![t] = "stamp"]
    /\ UNCHANGED <<rl_last, rl_lock, rl_now, rl_until, rl_calls, rl_passes,
                   rl_returns>>
    /\ UNCHANGED <<now, notLimiter>>

\* self._last = time.time()
WaitStamp(t) ==
    /\ rl_pc[t] = "stamp"
    /\ rl_last' = now
    /\ rl_passes' = Append(rl_passes, [t |-> t, at |-> now])
    /\ rl_pc' = [rl_pc EXCEPT ![t] = "release"]
    /\ UNCHANGED <<rl_lock, rl_now, rl_until, rl_calls, rl_returns>>
    /\ UNCHANGED <<now, notLimiter>>

\* the with block ends: the lock is released
WaitRelease(t) ==
    /\ rl_pc[t] = "release"
    /\ rl_lock' = 0
    /\ rl_pc' = [rl_pc EXCEPT ![t] = "return"]
    /\ UNCHANGED <<rl_last, rl_now, rl_until, rl_calls, rl_passes, rl_returns>>
    /\ UNCHANGED <<now, notLimiter>>

\* wait() returns to its caller
WaitReturn(t) ==
    /\ rl_pc[t] = "return"
    /\ rl_returns' = Append(rl_returns, [t |-> t, at |-> now])
    /\ rl_pc' = [rl_pc EXCEPT ![t] = "idle"]
    /\ UNCHANGED <<rl_last, rl_lock, rl_now, rl_until, rl_calls, rl_passes>>
    /\ UNCHANGED <<now, notLimiter>>

\* time passes
LimiterTick ==
    /\ now < LimiterHorizon
    /\ now' = now + 1
    /\ UNCHANGED <<limiterVars, notLimiter>>

\* time.time() is seconds since the epoch: the process starts later than
\* min_interval after it, while _last starts at 0.0
LimiterInit ==
    /\ ChunkIdle /\ CacheEmpty /\ ExtractIdle /\ AnnotateIdle /\ LimiterIdle
    /\ GuardIdle /\ CallIdle /\ ThreadsIdle
    /\ now = MinInterval

LimiterNext ==
    \/ \E t \in Threads :
          \/ WaitCall(t)
          \/ WaitAcquire(t)
          \/ WaitRead(t)
          \/ WaitWake(t)
          \/ WaitStamp(t)
          \/ WaitRelease(t)
          \/ WaitReturn(t)
    \/ LimiterTick

SpecLimiter == LimiterInit /\ [][LimiterNext]_vars

----------------------------------------------------------------------------
(* api_ner_html and _get_doc_lock of app/judgments/routes.py, called by the *)
(* threads of the process for documents that exist and have raw HTML        *)

\* the positions inside "with lock:"
LockedRegion == {"check", "engine", "annotate", "computed", "exit"}

\* a request of this thread is under way
InFlight(t) == gd_pc[t] \notin {"idle", "done"}

\* isinstance(v, str) and v.strip()
is_cached(stored) == stored = "html"

\* if not force and not debug
plain(t) == ~gd_force[t] /\ ~gd_debug[t]

lock_key_shared(doc_id) == "A"

\* the key of _INFLIGHT_LOCKS: doc_id
lock_key(doc_id) == doc_id

mutex_ignored(holder) == TRUE

\* with _LOCKS_MUTEX: blocks until the mutex is free
mutex_free(holder) == holder = 0

double_check_skipped(force, debug, stored) == FALSE

\* lines 439-443: the double-check inside the lock
double_check(force, debug, stored) == ~force /\ ~debug /\ is_cached(stored)

guardLocals == <<gd_pc, gd_doc, gd_force, gd_debug, gd_lock, gd_resp>>
guardLocks == <<gd_locks, gd_holder, gd_mutex, gd_nlocks, gd_created>>
guardCounts == <<gd_conc, gd_runs, gd_plainruns, gd_lost>>
guardFixed == <<gd_mode, gd_empty>>

\* lines 405-433: find_one, and the cached annotation served at once to a
\* request without force and debug
GuardRequest(t, d, force, debug) ==
    /\ gd_pc[t] = "idle"
    /\ gd_doc' = [gd_doc EXCEPT ![t] = d]
    /\ gd_force' = [gd_force EXCEPT ![t] = force]
    /\ gd_debug' = [gd_debug EXCEPT ![t] = debug]
    /\ IF ~force /\ ~debug /\ is_cached(gd_store[d])
       THEN /\ gd_resp' = [gd_resp EXCEPT ![t] = "cache_pre"]
            /\ gd_pc' = [gd_pc EXCEPT ![t] = "done"]
            /\ UNCHANGED gd_conc
       ELSE /\ gd_pc' = [gd_pc EXCEPT ![t] = "mutex"]
            /\ gd_conc' = [gd_conc EXCEPT ![d] =
                   @ \/ \E u \in Threads \ {t} : InFlight(u) /\ gd_doc[u] = d]
            /\ UNCHANGED gd_resp
    /\ UNCHANGED <<gd_lock, gd_store, gd_runs, gd_plainruns, gd_lost,
                   guardLocks, guardFixed>>
    /\ UNCHANGED notGuard

\* _get_doc_lock, lines 137-138 and 142: with _LOCKS_MUTEX, lock =
\* _INFLIGHT_LOCKS.get(doc_id); a lock found is returned, which releases the
\* mutex
GetDocLockLookup(t) ==
    /\ gd_pc[t] = "mutex"
    /\ mutex_free(gd_mutex)
    /\ gd_lock' = [gd_lock EXCEPT ![t] = gd_locks[lock_key(gd_doc[t])]]
    /\ IF gd_locks[lock_key(gd_doc[t])] = 0
       THEN /\ gd_mutex' = t
            /\ gd_pc' = [gd_pc EXCEPT ![t] = "create"]
       ELSE /\ gd_mutex' = 0
            /\ gd_pc' = [gd_pc EXCEPT ![t] = "acquire"]
    /\ UNCHANGED <<gd_doc, gd_force, gd_debug, gd_resp>>
    /\ UNCHANGED <<gd_locks, gd_holder, gd_nlocks, gd_created, gd_store,
                   guardCounts, guardFixed>>
    /\ UNCHANGED notGuard

\* lines 139-142: lock = threading.Lock(); _INFLIGHT_LOCKS[doc_id] = lock;
\* return lock, which releases the mutex
GetDocLockCreate(t) ==
    /\ gd_pc[t] = "create"
    /\ gd_nlocks' = gd_nlocks + 1
    /\ gd_lock' = [gd_lock EXCEPT ![t] = gd_nlocks + 1]
    /\ gd_locks' = [gd_locks EXCEPT ![lock_key(gd_doc[t])] = gd_nlocks + 1]
    /\ gd_created' = [gd_created EXCEPT ![gd_doc[t]] = @ + 1]
    /\ gd_mutex' = 0
    /\ gd_pc' = [gd_pc EXCEPT ![t] = "acquire"]
    /\ UNCHANGED <<gd_doc, gd_force, gd_debug, gd_resp>>
    /\ UNCHANGED <<gd_holder, gd_store, guardCounts, guardFixed>>
    /\ UNCHANGED notGuard

\* line 437: with lock, which blocks until the lock object is free
GuardAcquire(t) ==
    /\ gd_pc[t] = "acquire"
    /\ gd_holder[gd_lock[t]] = 0
    /\ gd_holder' = [gd_holder EXCEPT ![gd_lock[t]] = t]
    /\ gd_pc' = [gd_pc EXCEPT ![t] = "check"]
    /\ UNCHANGED <<gd_doc, gd_force, gd_debug, gd_lock, gd_resp>>
    /\ UNCHANGED <<gd_locks, gd_mutex, gd_nlocks, gd_created, gd_store,
                   guardCounts, guardFixed>>
    /\ UNCHANGED notGuard

\* lines 439-443: a request without force and debug returns what is persisted
GuardDoubleCheck(t) ==
    /\ gd_pc[t] = "check"
    /\ IF double_check(gd_force[t], gd_debug[t], gd_store[gd_doc[t]])
       THEN /\ gd_resp' = [gd_resp EXCEPT ![t] = "cache_locked"]
            /\ gd_pc' = [gd_pc EXCEPT ![t] = "exit"]
       ELSE /\ gd_pc' = [gd_pc EXCEPT ![t] = "engine"]
            /\ UNCHANGED gd_resp
    /\ UNCHANGED <<gd_doc, gd_force, gd_debug, gd_lock>>
    /\ UNCHANGED <<guardLocks, gd_store, guardCounts, guardFixed>>
    /\ UNCHANGED notGuard

\* lines 445-452: 503 when the engine is disabled; engine.annotate_html is
\* called when cleaned is not empty
GuardEngine(t) ==
    /\ gd_pc[t] = "engine"
    /\ IF gd_mode = "disabled"
       THEN /\ gd_resp' = [gd_resp EXCEPT ![t] = "ner_disabled"]
            /\ gd_pc' = [gd_pc EXCEPT ![t] = "exit"]
            /\ UNCHANGED <<gd_runs, gd_plainruns>>
       ELSE IF gd_empty[gd_doc[t]]
       THEN /\ gd_pc' = [gd_pc EXCEPT ![t] = "computed"]
            /\ UNCHANGED <<gd_resp, gd_runs, gd_plainruns>>
       ELSE /\ gd_pc' = [gd_pc EXCEPT ![t] = "annotate"]
            /\ gd_runs' = [gd_runs EXCEPT ![gd_doc[t]] = @ + 1]
            /\ gd_plainruns' = [gd_plainruns EXCEPT ![gd_doc[t]] =
                   IF plain(t) THEN @ + 1 ELSE @]
            /\ UNCHANGED gd_resp
    /\ UNCHANGED <<gd_doc, gd_force, gd_debug, gd_lock>>
    /\ UNCHANGED <<guardLocks, gd_store, gd_conc, gd_lost, guardFixed>>
    /\ UNCHANGED notGuard

\* line 452: engine.annotate_html returns
GuardAnnotated(t) ==
    /\ gd_pc[t] = "annotate"
    /\ gd_pc' = [gd_pc EXCEPT ![t] = "computed"]
    /\ UNCHANGED <<gd_doc, gd_force, gd_debug, gd_lock, gd_resp>>
    /\ UNCHANGED <<guardLocks, gd_store, guardCounts, guardFixed>>
    /\ UNCHANGED notGuard

\* lines 452, 467-469: engine.annotate_html raises; the response is a 500
GuardAnnotateRaises(t) ==
    /\ gd_pc[t] = "annotate"
    /\ gd_resp' = [gd_resp EXCEPT ![t] = "server_error"]
    /\ gd_lost' = [gd_lost EXCEPT ![gd_doc[t]] = IF plain(t) THEN @ + 1 ELSE @]
    /\ gd_pc' = [gd_pc EXCEPT ![t] = "exit"]
    /\ UNCHANGED <<gd_doc, gd_force, gd_debug, gd_lock>>
    /\ UNCHANGED <<guardLocks, gd_store, gd_conc, gd_runs, gd_plainruns,
                   guardFixed>>
    /\ UNCHANGED notGuard

\* lines 456-457: debug returns the HTML and persists nothing
GuardDebugReturn(t) ==
    /\ gd_pc[t] = "computed"
    /\ gd_debug[t]
    /\ gd_resp' = [gd_resp EXCEPT ![t] = "debug"]
    /\ gd_pc' = [gd_pc EXCEPT ![t] = "exit"]
    /\ UNCHANGED <<gd_doc, gd_force, gd_debug, gd_lock>>
    /\ UNCHANGED <<guardLocks, gd_store, guardCounts, guardFixed>>
    /\ UNCHANGED notGuard

\* lines 460-465: update_one sets content_ner_html to annotated
GuardPersist(t) ==
    /\ gd_pc[t] = "computed"
    /\ ~gd_debug[t]
    /\ gd_store' = [gd_store EXCEPT ![gd_doc[t]] =
           IF gd_empty[gd_doc[t]] THEN "blank" ELSE "html"]
    /\ gd_resp' = [gd_resp EXCEPT ![t] = "fresh"]
    /\ gd_pc' = [gd_pc EXCEPT ![t] = "exit"]
    /\ UNCHANGED <<gd_doc, gd_force, gd_debug, gd_lock>>
    /\ UNCHANGED <<guardLocks, guardCounts, guardFixed>>
    /\ UNCHANGED notGuard

\* lines 460-465: update_one raises, which is caught and printed
GuardPersistFails(t) ==
    /\ gd_pc[t] = "computed"
    /\ ~gd_debug[t]
    /\ gd_resp' = [gd_resp EXCEPT ![t] = "fresh"]
    /\ gd_lost' = [gd_lost EXCEPT ![gd_doc[t]] =
           IF plain(t) /\ ~gd_empty[gd_doc[t]] THEN @ + 1 ELSE @]
    /\ gd_pc' = [gd_pc EXCEPT ![t] = "exit"]
    /\ UNCHANGED <<gd_doc, gd_force, gd_debug, gd_lock>>
    /\ UNCHANGED <<guardLocks, gd_store, gd_conc, gd_runs, gd_plainruns,
                   guardFixed>>
    /\ UNCHANGED notGuard

\* __exit__ as if an exception leaving the block kept the lock
with_exit_keeps_on_error(holder, lock, resp) ==
    IF resp = "server_error" THEN holder ELSE [holder EXCEPT ![lock] = 0]

\* Lock.__exit__: release(), whatever way the block is left
with_exit(holder, lock, resp) == [holder EXCEPT ![lock] = 0]

\* the with block is left, by return or by exception: the lock is released
GuardExit(t) ==
    /\ gd_pc[t] = "exit"
    /\ gd_holder' = with_exit(gd_holder, gd_lock[t], gd_resp[t])
    /\ gd_lock' = [gd_lock EXCEPT ![t] = 0]
    /\ gd_pc' = [gd_pc EXCEPT ![t] = "done"]
    /\ UNCHANGED <<gd_doc, gd_force, gd_debug, gd_resp>>
    /\ UNCHANGED <<gd_locks, gd_mutex, gd_nlocks, gd_created, gd_store,
                   guardCounts, guardFixed>>
    /\ UNCHANGED notGuard

\* request.args: neither flag, force=1, debug=1 (with debug=1, force=1
\* changes nothing)
RequestArgs ==
    { [force |-> FALSE, debug |-> FALSE], [force |-> TRUE, debug |-> FALSE],
      [force |-> FALSE, debug |-> TRUE] }

\* the engine came up in a mode or disabled; the cleaned HTML of document B
\* may be empty
GuardInit ==
    /\ ChunkIdle /\ CacheIdle /\ ExtractIdle /\ AnnotateIdle /\ LimiterIdle
    /\ CallIdle /\ ThreadsIdle
    /\ GuardQuiet
    /\ gd_mode \in {"spacy", "disabled"}
    /\ gd_empty \in {e \in [DocIds -> BOOLEAN] : ~e["A"]}

GuardNext ==
    \E t \in Threads :
        \/ \E d \in DocIds, q \in RequestArgs :
              GuardRequest(t, d, q.force, q.debug)
        \/ GetDocLockLookup(t)
        \/ GetDocLockCreate(t)
        \/ GuardAcquire(t)
        \/ GuardDoubleCheck(t)
        \/ GuardEngine(t)
        \/ GuardAnnotated(t)
        \/ GuardAnnotateRaises(t)
        \/ GuardDebugReturn(t)
        \/ GuardPersist(t)
        \/ GuardPersistFails(t)
        \/ GuardExit(t)

SpecGuard == GuardInit /\ [][GuardNext]_vars

----------------------------------------------------------------------------
Range(seq) == {seq[i] : i \in 1..Len(seq)}

\* s1 < e2 and s2 < e1
Overlap(x, y) == x.s < y.e /\ y.s < x.e

(* C4: merge non-overlap.  The list extract_spans returns, computed or taken *)
(* from the cache, is ascending by start and holds no two overlapping spans. *)
C4_MergeNonOverlap ==
    ex_pc = "done" =>
        \A i, j \in 1..Len(ex_result) :
            i < j => /\ ex_result[i].s <= ex_result[j].s
                     /\ ~Overlap(ex_result[i], ex_result[j])

\* the provider sent two overlapping spans, the later-starting one first
C4_Witness ==
    /\ ex_pc = "done" /\ ~ex_hit
    /\ Len(ex_spans) = 2
    /\ Overlap(ex_spans[1], ex_spans[2])
    /\ ex_spans[2].s < ex_spans[1].s
    /\ Len(ex_result) = 1

----------------------------------------------------------------------------
\* the set that stored the value key k holds, if any
LastSetOf(k) == {x \in ca_lastset : x.k = k}

(* C10: cache TTL.  A get that returns a value returns the value of the      *)
(* latest set of that key, and that set is at most the TTL old when the get  *)
(* runs; so a get later than the TTL after the set returns absent (TTL 1:    *)
(* get two ticks after set is absent).                                       *)
C10_CacheTTL ==
    ca_op.op = "get" =>
        /\ ca_op.hit =>
              \E x \in LastSetOf(ca_op.k) :
                  x.val = ca_op.val /\ ca_op.t - x.t <= CacheTTL
        /\ \A x \in LastSetOf(ca_op.k) :
              ca_op.t - x.t > CacheTTL => ~ca_op.hit

\* a get one tick past the TTL of a set key returned absent
C10_Witness ==
    /\ ca_op.op = "get" /\ ~ca_op.hit
    /\ \E x \in LastSetOf(ca_op.k) : ca_op.t - x.t = CacheTTL + 1

----------------------------------------------------------------------------
RECURSIVE FragText(_)
\* the texts of a node's fragments, concatenated in order
FragText(frags) ==
    IF frags = <<>> THEN <<>> ELSE Head(frags).text \o FragText(Tail(frags))

\* the document without the tags of entity wrappers
WithoutWrappers(html) ==
    SelectSeq(html, LAMBDA tok :
        tok \notin {"<span.ner-A>", "<span.ner-B>", "</span>"})

\* the characters of the document
plainText(html) == SelectSeq(html, IsChar)

(* C1: losslessness.  When annotate_html returns, the fragments put in place *)
(* of each eligible text node spell, concatenated in order, the node's text  *)
(* exactly, no fragment is empty, and the returned document is the input     *)
(* with nothing but wrapper tags added: same characters, same other tags,    *)
(* same order.                                                               *)
C1_Lossless ==
    an_pc = "done" =>
        /\ \A i \in 1..Len(an_frags) :
              an_frags[i] # <<>> =>
                  /\ FragText(an_frags[i]) = text_nodes(an_html)[i].s
                  /\ \A f \in Range(an_frags[i]) : f.text # <<>>
        /\ plainText(an_out) = plainText(an_html)
        /\ WithoutWrappers(an_out) = WithoutWrappers(an_html)

\* of two nodes one was replaced by a literal, a wrapper and a literal, the
\* other by a wrapper and a literal
C1_Witness ==
    /\ an_pc = "done" /\ an_pass = 1
    /\ Len(an_frags) = 2
    /\ Len(an_frags[1]) = 3
    /\ an_frags[1][1].kind = "text" /\ an_frags[1][2].kind = "span"
    /\ an_frags[1][3].kind = "text"
    /\ Len(an_frags[2]) = 2
    /\ an_frags[2][1].kind = "span" /\ an_frags[2][2].kind = "text"

(* C2: idempotence.  Annotating the document a first annotation returned     *)
(* returns it unchanged.                                                     *)
C2_Idempotent ==
    (an_pc = "done" /\ an_pass = 2) => an_out = an_html

\* C6 (as amended): the times at which consecutive callers pass the gate,
\* that is stamp _last under the lock, are at least min_interval apart, and
\* a call of wait() returns no earlier than its own stamp
C6_GateSpacing ==
    /\ \A i \in 1..(Len(rl_passes) - 1) :
          rl_passes[i + 1].at - rl_passes[i].at >= MinInterval
    /\ \A t \in Threads :
          rl_pc[t] \in {"release", "return"} =>
              \E i \in 1..Len(rl_passes) :
                  rl_passes[i].t = t /\ rl_passes[i].at <= now
    /\ Len(rl_returns) <= Len(rl_passes)

\* two threads were in wait() at once, and the second passed the gate after
\* sleeping out the rest of the interval
C6_Witness ==
    /\ Len(rl_passes) >= 2
    /\ rl_passes[1].t # rl_passes[2].t
    /\ rl_now[rl_passes[2].t] < rl_passes[1].at + MinInterval
    /\ rl_passes[2].at = rl_passes[1].at + MinInterval

\* C6 (as stated): any two consecutive returns from wait() are at least
\* min_interval apart
C6_ReturnSpacing ==
    \A i \in 1..(Len(rl_returns) - 1) :
        rl_returns[i + 1].at - rl_returns[i].at >= MinInterval

\* the threads whose request for document d has finished
Finished(d) == {t \in Threads : gd_pc[t] = "done" /\ gd_doc[t] = d}

\* the threads inside "with lock:" for document d
Inside(d) == {t \in Threads : gd_pc[t] \in LockedRegion /\ gd_doc[t] = d}

\* C7 (as amended): of the requests for one document without force=1 and
\* debug=1, each that runs the annotation after the first follows one whose
\* run left nothing persisted (it raised, or the best-effort write failed);
\* such a request never runs the annotation while a persisted result exists,
\* and the one that finds it in the double-check returns it
C7_Collapse ==
    /\ \A d \in DocIds : gd_plainruns[d] <= 1 + gd_lost[d]
    /\ \A t \in Threads :
          /\ (plain(t) /\ gd_pc[t] \in {"annotate", "computed"}) =>
                 ~is_cached(gd_store[gd_doc[t]])
          /\ gd_resp[t] \in {"cache_pre", "cache_locked"} =>
                 plain(t) /\ is_cached(gd_store[gd_doc[t]])
    /\ \A d \in DocIds :
          (Finished(d) # {} /\ gd_mode # "disabled" /\ ~gd_empty[d]) =>
              gd_runs[d] >= 1

\* two requests without force and debug were in flight at once for one
\* document: one ran the annotation and persisted it, the other found it in
\* the double-check
C7_Witness ==
    \E d \in DocIds, t, u \in Threads :
        /\ gd_conc[d] /\ gd_runs[d] = 1 /\ gd_lost[d] = 0
        /\ {t, u} \subseteq Finished(d)
        /\ plain(t) /\ gd_resp[t] = "fresh"
        /\ plain(u) /\ gd_resp[u] = "cache_locked"

\* C7 (as stated): with two requests for one document in flight at once and
\* none of them failing, the annotation does not run a second time
C7_ExactlyOnce ==
    \A d \in DocIds :
        (gd_conc[d] /\ \A t \in Threads : gd_resp[t] # "server_error") =>
            gd_runs[d] <= 1

\* C8: at most one thread is inside the locked region of a document, one
\* lock object is ever created per document, every thread waiting for or
\* inside the region of a document has that object, and a lock object is
\* held only by a thread inside the region
C8_MutualExclusion ==
    /\ \A d \in DocIds : Cardinality(Inside(d)) <= 1
    /\ \A d \in DocIds : gd_created[d] <= 1
    /\ \A t \in Threads :
          gd_pc[t] \in LockedRegion \cup {"acquire"} =>
              /\ gd_lock[t] # 0
              /\ gd_lock[t] = gd_locks[lock_key(gd_doc[t])]
    /\ \A l \in LockIds :
          gd_holder[l] # 0 =>
              gd_pc[gd_holder[l]] \in LockedRegion /\ gd_lock[gd_holder[l]] = l

\* two threads asked for the lock of one document before it existed: one
\* is annotating inside the region, the other waits for the same lock object
C8_Witness ==
    \E d \in DocIds, t, u \in Threads :
        /\ t # u /\ gd_doc[t] = d /\ gd_doc[u] = d
        /\ gd_conc[d] /\ gd_created[d] = 1
        /\ gd_pc[t] = "annotate" /\ gd_pc[u] = "acquire"
        /\ gd_lock[t] = gd_lock[u]

\* C9: the only thing a thread waiting for a document lock waits for is a
\* thread inside the region of the same document, and _LOCKS_MUTEX is held
\* only between entering and leaving _get_doc_lock, where nothing blocks
C9_DocsIndependent ==
    /\ \A t \in Threads :
          (gd_pc[t] = "acquire" /\ gd_holder[gd_lock[t]] # 0) =>
              gd_doc[gd_holder[gd_lock[t]]] = gd_doc[t]
    /\ \A t \in Threads :
          (gd_pc[t] = "acquire" /\ Inside(gd_doc[t]) = {}) =>
              ENABLED GuardAcquire(t)
    /\ gd_mutex # 0 => gd_pc[gd_mutex] = "create"
    /\ \A t \in Threads :
          gd_pc[t] \in LockedRegion \cup {"acquire"} => gd_mutex # t

\* a thread is annotating document A, and a thread that asked for B after
\* that is annotating too
C9_Witness ==
    \E t, u \in Threads :
        /\ gd_doc[t] = "A" /\ gd_pc[t] = "annotate"
        /\ gd_doc[u] = "B" /\ gd_pc[u] = "annotate"
        /\ gd_lock[t] < gd_lock[u]

----------------------------------------------------------------------------
(* extract_spans called again and again on one engine while time passes and *)
(* other callers store their results in _CACHE                              *)

\* a caller invokes extract_spans on a text of one chunk or on a blank text
ExtractCallCached ==
    /\ ex_pc = "idle"
    /\ \E text \in {<<"a", "a", "a", "a">>, <<" ", " ">>} :
          ExtractEnter(text, MaxChars)
    /\ UNCHANGED <<now, notExtract>>

\* another caller's extract_spans, for a text cut into chunks of one
\* character, stores an empty span list under its key
OtherCallerStores ==
    /\ ex_pc \in {"idle", "done", "raised", "crashed"}
    /\ \E k \in {c \in CacheKeys : c[2] = 1} : CacheDoSet(k, <<>>)
    /\ UNCHANGED <<now, notCache>>

\* the provider's items for these calls: spans that start at offset 0
CachedNormalize ==
    NormalizeItem({it \in RawItems(ex_chunks[ex_ci], {"a"}) :
                      it.ok /\ py_int(it.start) = 0 /\ py_int(it.end) \in 1..2})

\* time passes between two calls of this engine
TickBetweenCalls ==
    /\ ex_pc \in {"idle", "done", "raised", "crashed"}
    /\ Tick

ExtractCacheNext ==
    \/ ExtractCallCached
    \/ ExtractRepeat
    \/ ProviderReturns
    \/ ProviderReturnsMalformed
    \/ ProviderReturnsScalar
    \/ ProviderHTTPError
    \/ ProviderRateLimited
    \/ CachedNormalize
    \/ ChunkDone
    \/ TickBetweenCalls
    \/ OtherCallerStores

SpecExtractCache == ExtractInit /\ [][ExtractCacheNext]_vars

\* the entry extract_spans stored for this text and max_chars is in _CACHE
\* and no older than the TTL
FreshEntry(x, text, max_chars) ==
    /\ x.k = cache_key(text, max_chars)
    /\ now - x.t <= CacheTTL
    /\ StoreIndex(ca_store, x.k) # 0

\* C11: a call of extract_spans whose text and max_chars were stored by a
\* completed call no longer ago than the TTL, the entry not evicted, returns
\* the stored span list at once; a call that returns from the cache has made
\* no _call_gemini_json call, hence no provider request and no limiter wait;
\* and a call that computed its result has stored it
C11_CacheHit ==
    /\ [][(ex_calls' = ex_calls + 1) =>
            \A x \in ca_lastset :
                (~IsBlank(ex_text') /\ FreshEntry(x, ex_text', ex_max_chars')) =>
                    /\ ex_pc' = "done" /\ ex_hit'
                    /\ ex_result' = x.val
                    /\ ex_provider' = 0]_vars
    /\ []((ex_pc = "done" /\ ex_hit) => ex_provider = 0)
    /\ []((ex_pc = "done" /\ ~ex_hit /\ ~IsBlank(ex_text)) =>
            \E x \in ca_lastset :
                x.k = cache_key(ex_text, ex_max_chars) /\ x.val = ex_result)

\* the second call returned a non-empty span list from the cache, one tick
\* after the first stored it and with another caller's entry beside it
C11_Witness ==
    /\ ex_pc = "done" /\ ex_hit /\ ex_calls = 2
    /\ ex_result # <<>>
    /\ Len(ca_store) = 2
    /\ \E x \in ca_lastset :
          x.k = cache_key(ex_text, ex_max_chars) /\ now - x.t = CacheTTL

----------------------------------------------------------------------------
(* GeminiNER._call_gemini_json: one call, for one chunk.  Durations are in  *)
(* quarters of a second.                                                    *)

\* max_retries=3
MaxRetries == 3
\* backoff = 1.5
BackoffStart == 6
\* time.sleep(0.75 * attempt)
ErrorSleepStep == 3

\* the Retry-After header of a 429 response: none, empty, seconds, an
\* HTTP-date
RetryAfterHeaders == {"absent", "", "0", "2", "date"}

\* int(resp.headers.get("Retry-After", "0") or "0"); ok = FALSE when int()
\* raises ValueError
retry_after_int(h) ==
    CASE h \in {"absent", "", "0"} -> [ok |-> TRUE, v |-> 0]
      [] h = "2"  -> [ok |-> TRUE, v |-> 2]
      [] OTHER    -> [ok |-> FALSE, v |-> 0]

\* int(math.ceil(backoff)), in seconds
ceil_backoff(q) == (q + 3) \div 4

\* the loop as if a retry went straight to requests.post
loop_top_skips_wait == "post"

\* lines 174-175: every iteration of the loop starts at _LIMITER.wait()
loop_top == "attempt"

\* lines 176-182: requests.post of one attempt returns a response
Posted(resp) ==
    /\ cg_pc = "post"
    /\ cg_requests' = cg_requests + 1
    /\ cg_last' = resp
    /\ UNCHANGED cg_waits

\* the call ends
Returns(kind, val, hint) ==
    /\ cg_pc' = IF kind = "value" THEN "returned" ELSE "raised"
    /\ cg_out' = [kind |-> kind, val |-> val, hint |-> hint]
    /\ UNCHANGED <<cg_attempt, cg_backoff, cg_sleeps>>

\* the loop sleeps and goes to the next attempt
SleepsAndRetries(quarters, backoff) ==
    /\ cg_sleeps' = Append(cg_sleeps, quarters)
    /\ cg_backoff' = backoff
    /\ cg_attempt' = cg_attempt + 1
    /\ cg_pc' = IF cg_attempt + 1 <= MaxRetries THEN loop_top ELSE "attempt"
    /\ UNCHANGED cg_out

\* a caller invokes _call_gemini_json
CallEnter ==
    /\ cg_pc = "idle"
    /\ cg_pc' = "attempt"
    /\ cg_attempt' = 1
    /\ cg_backoff' = BackoffStart
    /\ UNCHANGED <<cg_requests, cg_waits, cg_sleeps, cg_last, cg_out>>
    /\ UNCHANGED notCall

\* line 175: _LIMITER.wait() returns
CallWait ==
    /\ cg_pc = "attempt"
    /\ cg_attempt <= MaxRetries
    /\ cg_waits' = cg_waits + 1
    /\ cg_pc' = "post"
    /\ UNCHANGED <<cg_attempt, cg_backoff, cg_requests, cg_sleeps, cg_last,
                   cg_out>>
    /\ UNCHANGED notCall

\* lines 198-208: status 200
CallOk ==
    /\ \E b \in Bodies :
          /\ Posted([status |-> 200, retry_after |-> "absent", body |-> b])
          /\ Returns("value", parse_body(b), 0)
    /\ UNCHANGED notCall

\* lines 210-225: status 429
CallRateLimited ==
    /\ \E h \in RetryAfterHeaders :
          LET r == retry_after_int(h)
              base == IF r.v # 0 THEN 4 * r.v ELSE cg_backoff
          IN  /\ Posted([status |-> 429, retry_after |-> h, body |-> "none"])
              /\ IF ~r.ok
                 THEN Returns("ValueError", "int", 0)
                 ELSE IF cg_attempt = MaxRetries
                 THEN Returns("RateLimitError", "rate limited",
                              IF r.v # 0 THEN r.v ELSE ceil_backoff(cg_backoff))
                 ELSE SleepsAndRetries(base, 2 * cg_backoff)
    /\ UNCHANGED notCall

\* raise_for_status as if it raised for no status
raise_for_status_never(st) == FALSE

\* Response.raise_for_status raises HTTPError for the statuses 400..599
raise_for_status(st) == st >= 400 /\ st < 600

\* lines 227-235: any other status
CallOtherStatus ==
    /\ \E st \in {204, 500} :
          /\ Posted([status |-> st, retry_after |-> "absent", body |-> "none"])
          /\ IF cg_attempt = MaxRetries /\ raise_for_status(st)
             THEN Returns("HTTPError", "status", 0)
             ELSE SleepsAndRetries(ErrorSleepStep * cg_attempt, cg_backoff)
    /\ UNCHANGED notCall

\* line 237: the loop is over without a return: return []
CallFallsThrough ==
    /\ cg_pc = "attempt"
    /\ cg_attempt > MaxRetries
    /\ Returns("value", "empty_list", 0)
    /\ UNCHANGED <<cg_requests, cg_waits, cg_last>>
    /\ UNCHANGED notCall

\* lines 176-182: requests.post raises (timeout, connection error)
CallPostRaises ==
    /\ cg_pc = "post"
    /\ cg_requests' = cg_requests + 1
    /\ Returns("RequestException", "post", 0)
    /\ UNCHANGED <<cg_last, cg_waits>>
    /\ UNCHANGED notCall

CallInit ==
    /\ ChunkIdle /\ CacheIdle /\ ExtractIdle /\ AnnotateIdle /\ LimiterIdle
    /\ GuardIdle /\ CallIdle /\ ThreadsIdle

CallNext ==
    \/ CallEnter
    \/ CallWait
    \/ CallOk
    \/ CallRateLimited
    \/ CallOtherStatus
    \/ CallFallsThrough
    \/ CallPostRaises

SpecCall == CallInit /\ [][CallNext]_vars

\* C12: when the final attempt receives a 429 response, the call raises
\* RateLimitError whose retry_after is a positive integer
C12_RateLimitRaised ==
    (cg_pc \in {"returned", "raised"} /\ cg_attempt = MaxRetries
        /\ cg_last.status = 429 /\ cg_requests = MaxRetries) =>
            /\ cg_out.kind = "RateLimitError"
            /\ cg_out.hint > 0

\* C13: a 200 response that is no JSON array of spans never makes
\* extract_spans fail
C13_MalformedTolerated == ex_pc # "crashed"

\* the annotate route of app/services/ner/routes.py around annotate_html:
\* 200 with the HTML it returned, 500 server_error for any exception
annotate_response(pc, out) ==
    IF pc = "done"
    THEN [status |-> 200, html |-> out]
    ELSE [status |-> 500, html |-> <<>>]

\* C14: when the provider is rate-limited on the last attempt for a chunk,
\* the request for annotation is answered with the original document
C14_GracefulDegradation ==
    an_pc = "failed" =>
        annotate_response(an_pc, an_out) = [status |-> 200, html |-> an_html]

-----------------------------------------------------------------------------
\* no text node of the document can be annotated: each one is inside a skipped
\* tag, inside an entity wrapper, or shorter than two characters once trimmed
NoEligibleText(html) ==
    \A i \in 1..Len(find_all_strings(html)) :
        LET tn == find_all_strings(html)[i]
        IN  \/ tn.parent.name \in _SKIP_TAGS
            \/ "ner" \in tn.parent.class
            \/ Len(strip(tn.s)) < 2

-----------------------------------------------------------------------------
(* C16: forward progress of the chunker.  While the loop of _chunks runs    *)
(* and after it has returned, every chunk appended is non-empty, cur is the  *)
(* total length of the chunks appended and never passes the end of the text, *)
(* so there were at most len(text) iterations; and every iteration moves cur *)
(* strictly forward.                                                         *)
C16_ForwardProgress ==
    (ck_pc \in {"loop", "done"} /\ Len(ck_text) > ck_max_chars) =>
        /\ \A i \in 1..Len(ck_parts) : ck_parts[i] # <<>>
        /\ ck_cur = RunningOffset(ck_parts, Len(ck_parts) + 1)
        /\ Len(ck_parts) <= ck_cur
        /\ ck_cur <= Len(ck_text)
        /\ ck_cur < Len(ck_text) =>
               _chunks_body(ck_text, ck_max_chars, ck_cur).cur > ck_cur

\* the loop has returned; one window began with its only ". " (found at index
\* 0) and was taken whole, and the last window had length 1
C16_Witness ==
    /\ ck_pc = "done" /\ Len(ck_text) > ck_max_chars
    /\ Len(ck_parts) >= 2
    /\ \E i \in 1..Len(ck_parts) :
          /\ rfind(ck_parts[i]) = 0
          /\ Len(ck_parts[i]) = ck_max_chars
    /\ Len(ck_parts[Len(ck_parts)]) = 1

-----------------------------------------------------------------------------
(* extract_spans alone on texts of one and of two chunks, each item of the  *)
(* provider's array shown as it is normalised                               *)

\* the labels of these items: absent or empty, blank, a name, JSON null
ValidateLabels == {"", " ", "a", "null"}

\* a caller invokes extract_spans
ValidateCall ==
    /\ ex_pc = "idle"
    /\ \E text \in {<<"a", ".", " ", "a">>, <<"a", "a", "a">>},
          max_chars \in {2, MaxChars} :
          ExtractEnter(text, max_chars)
    /\ UNCHANGED <<now, notExtract>>

\* one iteration of the loop of lines 275-283
ValidateNormalize ==
    NormalizeItemOf(RawItems(ex_chunks[ex_ci], ValidateLabels)
                        \cup FractionalItems(ex_chunks[ex_ci]), TRUE)

ValidateNext ==
    \/ ValidateCall
    \/ ExtractRepeat
    \/ ProviderReturns
    \/ ProviderHTTPError
    \/ ValidateNormalize
    \/ ChunkDone

SpecValidate == ExtractInit /\ [][ValidateNext]_vars

\* the chunk-local span the item names, taken as whole numbers by int()
LocalSpan(it) == [s |-> py_int(it.start), e |-> py_int(it.end)]

\* the item of the step that just ran was kept
Kept == ex_spans' # ex_spans

\* every span returned is inside the text and inside the range of one chunk
ReturnedInsideChunks ==
    (ex_pc = "done" /\ ~IsBlank(ex_text)) =>
        \A i \in 1..Len(ex_result) :
            LET r      == ex_result[i]
                chunks == _chunks(ex_text, ex_max_chars)
            IN  /\ 0 <= r.s /\ r.s < r.e /\ r.e <= Len(ex_text)
                /\ r.L # ""
                /\ \E c \in 1..Len(chunks) :
                      /\ RunningOffset(chunks, c) <= r.s
                      /\ r.e <= RunningOffset(chunks, c) + Len(chunks[c])

(* C17 as claimed: an item is kept exactly when its label is not empty, its  *)
(* end is greater than its start, its start is not negative and its end is  *)
(* not beyond the length of the chunk, the numbers taken as the provider     *)
(* sent them.                                                                *)
C17_SpanValidation ==
    [][(ex_nitems' = ex_nitems + 1) =>
          (Kept <=> /\ ex_item'.ok
                    /\ label_norm(ex_item'.label) # ""
                    /\ ex_item'.end > ex_item'.start
                    /\ ex_item'.start >= 0
                    /\ ex_item'.end <= 2 * Len(ex_chunks[ex_ci]))]_vars

(* C17: span validation and rebasing.  extract_spans converts the start and *)
(* end of an item with int(), which truncates toward zero, and its label    *)
(* with str(), upper() and strip().  It discards, silently, every item whose *)
(* conversion raises, whose converted label is empty, or whose converted     *)
(* numbers have end <= start, start < 0 or end > len(chunk); it appends      *)
(* every other item as one span, the converted numbers plus the chunk's base *)
(* offset, which covers in the text the characters the converted span covers *)
(* in the chunk.  Every span returned satisfies 0 <= start < end <=          *)
(* len(text) and lies inside the range of one chunk.                         *)
C17_ConvertedSpanValidation ==
    /\ [][(ex_nitems' = ex_nitems + 1) =>
             LET it    == ex_item'
                 chunk == ex_chunks[ex_ci]
                 loc   == LocalSpan(it)
                 valid == /\ it.ok
                          /\ label_norm(it.label) # ""
                          /\ loc.e > loc.s /\ loc.s >= 0 /\ loc.e <= Len(chunk)
             IN  /\ ~valid => ex_spans' = ex_spans
                 /\ valid =>
                       /\ Len(ex_spans') = Len(ex_spans) + 1
                       /\ SubSeq(ex_spans', 1, Len(ex_spans)) = ex_spans
                       /\ LET sp == ex_spans'[Len(ex_spans')]
                          IN  /\ sp.s = loc.s + RunningOffset(ex_chunks, ex_ci)
                              /\ sp.e = loc.e + RunningOffset(ex_chunks, ex_ci)
                              /\ sp.L = label_norm(it.label)
                              /\ Slice(ex_text, sp.s, sp.e)
                                    = Slice(chunk, loc.s, loc.e)]_vars
    /\ []ReturnedInsideChunks

\* a span of the second chunk was kept and rebased, the item before it or
\* after it having been one with start -0.5, which int() made 0
C17_Witness ==
    /\ ex_pc = "done" /\ ~ex_hit /\ Len(ex_chunks) = 2
    /\ ex_item.ok /\ ex_item.start = -1
    /\ Len(ex_result) = 2
    /\ ex_result[2].s >= Len(ex_chunks[1])
    /\ ex_result[1].e <= Len(ex_chunks[1])

-----------------------------------------------------------------------------
\* how far a request is through the locked region
RegionRank(pc) ==
    CASE pc = "check"    -> 1
      [] pc = "engine"   -> 2
      [] pc = "annotate" -> 3
      [] pc = "computed" -> 4
      [] pc = "exit"     -> 5
      [] OTHER           -> 6

\* a step of thread t inside the locked region
RegionStep(t) ==
    \/ GuardDoubleCheck(t)
    \/ GuardEngine(t)
    \/ GuardAnnotated(t)
    \/ GuardAnnotateRaises(t)
    \/ GuardDebugReturn(t)
    \/ GuardPersist(t)
    \/ GuardPersistFails(t)
    \/ GuardExit(t)

\* the responses of a request that has been inside the locked region
RegionResponses ==
    {"cache_locked", "ner_disabled", "debug", "fresh", "server_error"}

-----------------------------------------------------------------------------
\* the keys in the store
StoreKeys(store) == {store[i].k : i \in 1..Len(store)}

(* C19: cache capacity.  After a set, whatever gets and sets came before,   *)
(* the cache holds at most maxsize entries, none of them older than the TTL  *)
(* at the time of the set, no key twice, and the entry just set among them.  *)
C19_CacheCapacity ==
    ca_op.op = "set" =>
        /\ Len(ca_store) <= CacheMaxSize
        /\ \A i \in 1..Len(ca_store) : ca_op.t - ca_store[i].ts <= CacheTTL
        /\ \A i, j \in 1..Len(ca_store) :
              ca_store[i].k = ca_store[j].k => i = j
        /\ \E i \in 1..Len(ca_store) :
              ca_store[i] = [k |-> ca_op.k, val |-> ca_op.val, ts |-> ca_op.t]

\* a set left the cache at maxsize: a key set before is gone though its entry
\* had not expired, and an entry older than the one just set is still there
C19_Witness ==
    /\ ca_op.op = "set" /\ Len(ca_store) = CacheMaxSize
    /\ \E x \in ca_lastset :
          x.k \notin StoreKeys(ca_store) /\ ca_op.t - x.t <= CacheTTL
    /\ \E i \in 1..Len(ca_store) : ca_store[i].ts < ca_op.t

\* the entries a set at time now removes to get back to maxsize: those of
\* other keys that had not expired and are gone after the set
Evicted ==
    {e \in Range(ca_store) :
        /\ now - e.ts <= CacheTTL
        /\ e.k \notin StoreKeys(ca_store')}

(* C20: oldest-first eviction.  No entry that survives a set has an older    *)
(* timestamp than an entry the set evicted for size.                         *)
C20_OldestFirst ==
    [][ca_op'.op = "set" =>
          \A e \in Evicted : \A i \in 1..Len(ca_store') :
              ca_store'[i].ts >= e.ts]_vars

-----------------------------------------------------------------------------
\* a step of the running call ends it, passes the limiter, or has posted a
\* request and goes to the next attempt
CallMovesOn ==
    \/ cg_pc' \in {"returned", "raised"}
    \/ cg_pc = "attempt" /\ cg_pc' = "post" /\ cg_attempt' = cg_attempt
    \/ cg_attempt' = cg_attempt + 1 /\ cg_requests' = cg_requests + 1

-----------------------------------------------------------------------------
\* the step posts a request that is answered with a status other than 200
\* and 429
OtherStatusAnswered ==
    /\ cg_requests' = cg_requests + 1
    /\ cg_last'.status \notin {200, 429}
    /\ cg_out'.kind # "RequestException"

(* C22 as claimed: a call whose final allowed attempt was answered with a    *)
(* status other than 200 and 429 does not return a value.                    *)
C22_FinalErrorRaises ==
    (cg_pc = "returned" /\ cg_requests = MaxRetries) =>
        cg_last.status \in {200, 429}

(* C22: other HTTP statuses.  An attempt before the last that is answered    *)
(* with a status other than 200 and 429 sleeps 0.75 s times the attempt      *)
(* number (3 quarters of a second times it) and goes to the next attempt,    *)
(* the 429 backoff unchanged.  On the last attempt a status of 400..599      *)
(* raises HTTPError; any other status sleeps as well, and the call returns   *)
(* the empty list.                                                           *)
C22_OtherStatus ==
    /\ [][OtherStatusAnswered =>
             IF cg_attempt = MaxRetries /\ cg_last'.status >= 400
             THEN cg_pc' = "raised" /\ cg_out'.kind = "HTTPError"
                  /\ cg_sleeps' = cg_sleeps
             ELSE /\ cg_sleeps' = Append(cg_sleeps, 3 * cg_attempt)
                  /\ cg_attempt' = cg_attempt + 1
                  /\ cg_backoff' = cg_backoff
                  /\ cg_pc' = "attempt"]_vars
    /\ []((cg_pc = "returned" /\ cg_attempt > MaxRetries) =>
             /\ cg_out = [kind |-> "value", val |-> "empty_list", hint |-> 0]
             /\ cg_last.status \notin {200, 429} /\ cg_last.status < 400
             /\ Len(cg_sleeps) = MaxRetries)

\* three attempts were answered 500: the call slept 0.75 s and 1.5 s and
\* raised HTTPError
C22_Witness ==
    /\ cg_pc = "raised" /\ cg_out.kind = "HTTPError"
    /\ cg_last.status = 500
    /\ cg_sleeps = <<3, 6>>

-----------------------------------------------------------------------------
(* C23: network timeouts are retried.  A call ends with the exception of a  *)
(* request that got no response only when that request was the last one     *)
(* allowed.                                                                  *)
C23_TimeoutRetried ==
    (cg_pc = "raised" /\ cg_out.kind = "RequestException") =>
        cg_requests = MaxRetries

-----------------------------------------------------------------------------
\* the text node is one annotate_html passes over: its parent is a skipped
\* tag or an entity wrapper, or its trimmed text has fewer than two characters
Skipped(tn) ==
    \/ tn.parent.name \in _SKIP_TAGS
    \/ "ner" \in tn.parent.class
    \/ Len(strip(tn.s)) < 2

\* the number of entity wrappers among the fragments
RECURSIVE Wrappers(_)
Wrappers(frags) ==
    IF frags = <<>> THEN 0
    ELSE (IF Head(frags).kind = "span" THEN 1 ELSE 0) + Wrappers(Tail(frags))

\* the number of tokens put into the output before token position lo of the
\* input: two tags for each wrapper of an earlier node
RECURSIVE TokensAddedBefore(_, _, _)
TokensAddedBefore(nodes, frags, lo) ==
    IF nodes = <<>> THEN 0
    ELSE (IF Head(nodes).lo < lo THEN 2 * Wrappers(Head(frags)) ELSE 0)
            + TokensAddedBefore(Tail(nodes), Tail(frags), lo)

\* the elements open at token i of the document, innermost last
RECURSIVE OpenAt(_, _)
OpenAt(html, i) ==
    IF i = 0 THEN <<DocumentRoot>>
    ELSE LET below == OpenAt(html, i - 1)
         IN  IF html[i] \in TagOpen THEN Append(below, TagOf(html[i]))
             ELSE IF html[i] \in TagClose
                  THEN SubSeq(below, 1, Len(below) - 1)
                  ELSE below

\* an entity wrapper is the child of an entity wrapper
NestedWrapper(html) ==
    \E i \in 1..Len(html) :
        /\ html[i] \in {"<span.ner-A>", "<span.ner-B>"}
        /\ "ner" \in OpenAt(html, i - 1)[Len(OpenAt(html, i - 1))].class

\* the texts of the nodes that are not passed over, joined by the delimiter
RECURSIVE CorpusOf(_)
CorpusOf(all) ==
    IF all = <<>> THEN <<>>
    ELSE IF Skipped(Head(all)) THEN CorpusOf(Tail(all))
    ELSE IF \A i \in 2..Len(all) : Skipped(all[i]) THEN Head(all).s
    ELSE Head(all).s \o delim \o CorpusOf(Tail(all))

(* C24: skipped nodes are untouched.  A text node inside a skipped tag,      *)
(* inside an entity wrapper, or shorter than two characters once trimmed     *)
(* has no offset window and no text in the corpus sent to extract_spans;     *)
(* when annotate_html returns, the node stands in the output between the     *)
(* tags of its parent as it stood in the input, moved only by the wrapper    *)
(* tags put in before it; and the output has no entity wrapper directly      *)
(* inside an entity wrapper.                                                 *)
C24_SkippedUntouched ==
    /\ an_pc \in {"extract", "done"} =>
          \A i \in 1..Len(find_all_strings(an_html)) :
              LET tn == find_all_strings(an_html)[i]
              IN  Skipped(tn) =>
                      \A j \in 1..Len(text_nodes(an_html)) :
                          text_nodes(an_html)[j].lo # tn.lo
    /\ an_pc = "extract" => ex_text = CorpusOf(find_all_strings(an_html))
    /\ an_pc = "done" =>
          /\ \A i \in 1..Len(find_all_strings(an_html)) :
                LET tn    == find_all_strings(an_html)[i]
                    added == TokensAddedBefore(text_nodes(an_html), an_frags,
                                               tn.lo)
                IN  Skipped(tn) =>
                        SubSeq(an_out, tn.lo - 1 + added, tn.hi + 1 + added)
                            = SubSeq(an_html, tn.lo - 1, tn.hi + 1)
          /\ ~NestedWrapper(an_out)

\* a paragraph got a wrapper; the entity wrapper that followed it in the
\* input follows it in the output, two tokens further on
C24_Witness ==
    /\ an_pc = "done" /\ an_pass = 1
    /\ Len(find_all_strings(an_html)) = 2
    /\ ~Skipped(find_all_strings(an_html)[1])
    /\ "ner" \in find_all_strings(an_html)[2].parent.class
    /\ Len(an_out) = Len(an_html) + 2

-----------------------------------------------------------------------------
\* span x starts inside the window of node j and ends inside the window of
\* the node after it
Straddles(x, nodes, j) ==
    /\ nodes[j].start <= x.s /\ x.s < nodes[j].end
    /\ nodes[j + 1].start < x.e /\ x.e <= nodes[j + 1].end

(* C25: spans that straddle the delimiter are discarded.  When extract_spans *)
(* returned one span, and it starts in one node's window and ends in the     *)
(* next one's, the projection puts no entity wrapper into either node.       *)
C25_StraddlingDiscarded ==
    [][(an_pc = "extract" /\ an_pc' = "done" /\ Len(ex_result) = 1) =>
          \A j \in 1..(Len(text_nodes(an_html)) - 1) :
              Straddles(ex_result[1], text_nodes(an_html), j) =>
                  /\ Wrappers(an_frags'[j]) = 0
                  /\ Wrappers(an_frags'[j + 1]) = 0]_vars

----------------------------------------------------------------------------
(* Orders in which the rebased spans can reach the sort and merge of         *)
(* extract_spans (lines 287-294).                                            *)

\* the orders of n things
Perms(n) == {p \in [1..n -> 1..n] : \A i, j \in 1..n : p[i] = p[j] => i = j}

\* the list seq presented in the order p
Reorder(seq, p) == [i \in 1..Len(seq) |-> seq[p[i]]]

\* the starts and ends of a span list, labels left out
Ranges(spans) == [i \in 1..Len(spans) |-> <<spans[i].s, spans[i].e>>]

\* the rebased spans of chunk i, in the order its response listed them: a
\* span is appended only if 0 <= s < e <= len(chunk), so after + offset it
\* starts inside the window of its chunk
ChunkSpans(i) ==
    LET off == RunningOffset(ex_chunks, i)
        InChunk(x) == off <= x.s /\ x.s < off + Len(ex_chunks[i])
    IN  SelectSeq(ex_spans, InChunk)

\* the span list built when the chunks complete in the order q
ChunkOrder(q) == Concat([i \in 1..Len(q) |-> ChunkSpans(q[i])])

(* C26, as stated: the merged list, labels included, is the same for every   *)
(* order in which the rebased spans are presented to the merge.              *)
C26_OrderIndependent ==
    (ex_pc = "done" /\ ~ex_hit) =>
        \A p \in Perms(Len(ex_spans)) :
            merge_spans(Reorder(ex_spans, p)) = ex_result

(* C26: merge and order.  The starts and ends of the merged list are the     *)
(* same for every order of the rebased spans, and the whole merged list,     *)
(* labels included, is the same for every order in which the chunks          *)
(* complete; the label is the same for every order of the spans that keeps   *)
(* spans of equal start and end in their order.                              *)
C26_ChunkOrderIndependent ==
    (ex_pc = "done" /\ ~ex_hit) =>
        /\ ChunkOrder([i \in 1..Len(ex_chunks) |-> i]) = ex_spans
        /\ \A p \in Perms(Len(ex_spans)) :
              /\ Ranges(merge_spans(Reorder(ex_spans, p))) = Ranges(ex_result)
              /\ (\A i, j \in 1..Len(ex_spans) :
                     (i < j /\ Ranges(ex_spans)[p[i]] = Ranges(ex_spans)[p[j]])
                         => p[i] < p[j])
                 => merge_spans(Reorder(ex_spans, p)) = ex_result
        /\ \A q \in Perms(Len(ex_chunks)) :
              merge_spans(ChunkOrder(q)) = ex_result

\* a text of two chunks or more whose provider put two labels on one range
C26_Witness ==
    /\ ex_pc = "done" /\ ~ex_hit
    /\ Len(ex_chunks) >= 2
    /\ Len(ex_spans) = 2
    /\ Ranges(ex_spans)[1] = Ranges(ex_spans)[2]
    /\ ex_spans[1].L # ex_spans[2].L
    /\ ex_result = <<ex_spans[1]>>

----------------------------------------------------------------------------
(* extract_spans and RateLimitError (lines 265-272, 296)                     *)

\* a caller invokes extract_spans for a text of two chunks
ExtractCallChunked ==
    /\ ex_pc = "idle"
    /\ ExtractEnter(<<"a", "a", "a", "a">>, MaxChars - 2)
    /\ UNCHANGED <<now, notExtract>>

ExtractChunkedNext ==
    \/ ExtractCallChunked
    \/ ExtractRepeat
    \/ ProviderReturns
    \/ ProviderReturnsMalformed
    \/ ProviderReturnsScalar
    \/ ProviderHTTPError
    \/ ProviderRateLimited
    \/ CachedNormalize
    \/ ChunkDone
    \/ TickBetweenCalls

\* one engine called again and again for one text of two chunks, while time
\* passes between the calls
SpecExtractChunked == ExtractInit /\ [][ExtractChunkedNext]_vars

\* the store without the entry of key k, if that entry is older than the TTL
\* at time t
WithoutExpired(store, k, t) ==
    LET Stays(x) == ~(x.k = k /\ t - x.ts > CacheTTL)
    IN  SelectSeq(store, Stays)

\* a step of the call that has neither returned nor raised
RunsOn == ex_pc \in {"call", "items"} /\ ex_pc' \in {"call", "items"}

\* the step in which RateLimitError leaves extract_spans
Raises == ex_pc = "call" /\ ex_pc' = "raised"

(* C27, as stated: when extract_spans raises RateLimitError the cache        *)
(* content is exactly what it was before the call.                           *)
C27_CacheAsBefore == [][Raises => ca_store' = ex_before]_vars

\* what holds of the call as the error leaves it
RaisedClean ==
    /\ ex_provider' = ex_ci
    /\ ex_ci <= Len(ex_chunks)
    /\ UNCHANGED <<cacheVars, ex_ci, ex_spans, ex_result, ex_hit>>
    /\ ex_result = <<>> /\ ~ex_hit
    /\ ca_op.op = "get"
    /\ ca_op.k = cache_key(ex_text, ex_max_chars)
    /\ ca_store =
          WithoutExpired(ex_before, cache_key(ex_text, ex_max_chars), ca_op.t)
    /\ StoreIndex(ca_store, cache_key(ex_text, ex_max_chars)) = 0

\* what holds of every step after the error, up to the next call
RaisedStays ==
    /\ ex_pc' = "raised"
    /\ ex_provider' = ex_provider
    /\ ex_ci' = ex_ci

(* C27: rate-limit failure.  When _call_gemini_json raises RateLimitError    *)
(* for a chunk, extract_spans has made one provider call for that chunk and  *)
(* each chunk before it and makes none for a later chunk, the error leaves   *)
(* the function with no result and no cache write, and the cache holds what  *)
(* it held before the call less the entry of the call's own key if that      *)
(* entry had expired, which the lookup at entry removed.                     *)
C27_RateLimitStops ==
    /\ [][Raises => RaisedClean]_vars
    /\ [][(ex_pc = "raised" /\ ex_calls' = ex_calls) => RaisedStays]_vars
    /\ [][RunsOn => UNCHANGED cacheVars]_vars

\* the first of two chunks was rate limited, in a call whose lookup removed
\* the expired entry an earlier call had stored, the only entry ever set
C27_Witness ==
    /\ ex_pc = "raised"
    /\ Len(ex_chunks) = 2 /\ ex_ci = 1 /\ ex_provider = 1
    /\ ca_op.op = "get" /\ ~ca_op.hit
    /\ \E x \in ca_lastset :
          /\ ca_lastset = {x}
          /\ x.k = cache_key(ex_text, ex_max_chars)
          /\ ca_op.t - x.t > CacheTTL
    /\ ca_store = <<>>

----------------------------------------------------------------------------
(* C28: only complete results are cached.  When extract_spans has returned   *)
(* from a run in which the call of some chunk ended in requests.HTTPError,   *)
(* the cache holds no entry for the run's text and max_chars, so that a      *)
(* later call queries the provider again.                                    *)
C28_OnlyCompleteCached ==
    (ex_pc = "done" /\ ex_partial) =>
        StoreIndex(ca_store, cache_key(ex_text, ex_max_chars)) = 0

----------------------------------------------------------------------------
(* extract_spans called by the threads of the process at once, each with    *)
(* the same model, labels, text and max_chars.  _CACHE.get and _CACHE.set    *)
(* each hold the cache's lock; nothing is held between them.                 *)

\* lines 254-263: cached = _CACHE.get(cache_key); return it, or start the loop
ThreadLookup(t) ==
    /\ xt_pc[t] = "idle"
    /\ LET r == _TTLCache_get(ca_store, SharedKey, now)
       IN  /\ CacheDoGet(SharedKey)
           /\ xt_pc' = [xt_pc EXCEPT ![t] = IF r.hit THEN "done" ELSE "call"]
           /\ xt_ci' = [xt_ci EXCEPT ![t] = IF r.hit THEN 0 ELSE 1]
           /\ xt_spans' = [xt_spans EXCEPT ![t] = r.val]
    /\ UNCHANGED <<xt_queries, now, notThreads>>

\* lines 265-285, one chunk: the provider is queried and answers with no
\* span or with one, which is rebased and appended
ThreadQuery(t) ==
    /\ xt_pc[t] = "call"
    /\ xt_queries' = [xt_queries EXCEPT ![xt_ci[t]] = @ + 1]
    /\ \E arr \in {<<>>, <<[s |-> 0, e |-> 1, L |-> "A"]>>} :
          LET off == RunningOffset(SharedChunks, xt_ci[t])
              reb == [i \in 1..Len(arr) |->
                         [s |-> arr[i].s + off, e |-> arr[i].e + off,
                          L |-> arr[i].L]]
          IN  xt_spans' = [xt_spans EXCEPT ![t] = @ \o reb]
    /\ xt_ci' = [xt_ci EXCEPT ![t] = @ + 1]
    /\ xt_pc' = [xt_pc EXCEPT
                    ![t] = IF xt_ci[t] + 1 > Len(SharedChunks)
                           THEN "store" ELSE "call"]
    /\ UNCHANGED <<now, cacheVars, notThreads>>

\* lines 268-270: the provider is queried and the call raises RateLimitError
ThreadRateLimited(t) ==
    /\ xt_pc[t] = "call"
    /\ xt_queries' = [xt_queries EXCEPT ![xt_ci[t]] = @ + 1]
    /\ xt_pc' = [xt_pc EXCEPT ![t] = "raised"]
    /\ UNCHANGED <<xt_ci, xt_spans, now, cacheVars, notThreads>>

\* lines 287-297: sort, merge, _CACHE.set(cache_key, merged), return merged
ThreadStore(t) ==
    /\ xt_pc[t] = "store"
    /\ CacheDoSet(SharedKey, merge_spans(xt_spans[t]))
    /\ xt_spans' = [xt_spans EXCEPT ![t] = merge_spans(@)]
    /\ xt_pc' = [xt_pc EXCEPT ![t] = "done"]
    /\ UNCHANGED <<xt_ci, xt_queries, now, notThreads>>

ThreadsInit ==
    /\ ChunkIdle /\ CacheIdle /\ ExtractIdle /\ AnnotateIdle /\ LimiterIdle
    /\ GuardIdle /\ CallIdle /\ ThreadsIdle

ThreadsNext ==
    \E t \in Threads :
        \/ ThreadLookup(t)
        \/ ThreadQuery(t)
        \/ ThreadRateLimited(t)
        \/ ThreadStore(t)

SpecThreads == ThreadsInit /\ [][ThreadsNext]_vars

(* C29: no duplicate work.  When threads call extract_spans at once with     *)
(* identical arguments and the cache holds no entry for them, the provider   *)
(* is queried at most once for each chunk, all threads taken together.       *)
C29_NoDuplicateWork ==
    \A c \in 1..Len(SharedChunks) : xt_queries[c] <= 1

----------------------------------------------------------------------------
(* C30: the per-node second merge is a no-op.  For the span list            *)
(* extract_spans returned to annotate_html and every eligible text node, the *)
(* list of spans clipped to the node's window comes out of the per-node sort *)
(* and merge as it went in: no span dropped, none moved.                     *)
C30_NodeMergeNoOp ==
    (an_pc = "extract" /\ ex_pc = "done") =>
        \A i \in 1..Len(text_nodes(an_html)) :
            LET ns == node_spans(ex_result, text_nodes(an_html)[i])
            IN  /\ node_merge(ns) = ns
                /\ \A j \in 1..(Len(ns) - 1) : ns[j].e <= ns[j + 1].s

\* extract_spans returned two spans that fall into the window of one node
C30_Witness ==
    /\ an_pc = "extract" /\ ex_pc = "done"
    /\ \E i \in 1..Len(text_nodes(an_html)) :
          Len(node_spans(ex_result, text_nodes(an_html)[i])) = 2
============================================================================
